---- MODULE Spec2Model ----
(***************************************************************************)
(* A model of yammy's document composition engine: the node tree with its  *)
(* provenance (node.go), JSON Pointer addressing (util.go), the merge      *)
(* engine (node.Merge), the patch interpreter (load.go) and the recursive  *)
(* loader (Load / loadNode).                                               *)
(*                                                                         *)
(* Go strings are modelled as sequences of one-character strings so that   *)
(* splitting, unescaping, integer parsing and the byte-wise comparison of  *)
(* keys are computed as the code computes them.                            *)
(***************************************************************************)
EXTENDS Integers, Sequences, FiniteSets, TLC

----------------------------------------------------------------------------
(* Strings                                                                 *)

\* The printable ASCII characters in byte order, from 32 (space) to 126 (~);
\* "<96>" holds the place of the grave accent, which no string here contains.
AsciiChars ==
  <<
     " ", "!", "\"", "#", "$", "%", "&", "'", "(", ")", "*", "+",
     ",", "-", ".", "/", "0", "1", "2", "3", "4", "5", "6", "7",
     "8", "9", ":", ";", "<", "=", ">", "?", "@", "A", "B", "C",
     "D", "E", "F", "G", "H", "I", "J", "K", "L", "M", "N", "O",
     "P", "Q", "R", "S", "T", "U", "V", "W", "X", "Y", "Z", "[",
     "\\", "]", "^", "_", "<96>", "a", "b", "c", "d", "e", "f", "g",
     "h", "i", "j", "k", "l", "m", "n", "o", "p", "q", "r", "s",
     "t", "u", "v", "w", "x", "y", "z", "{", "|", "}", "~"
  >>

\* The byte value of a character; Go compares strings byte-wise.
Ord(c) == 31 + (CHOOSE i \in 1..95 : AsciiChars[i] = c)

\* s < t for Go strings (lexical, byte-wise).
RECURSIVE StrLess(_, _)
StrLess(s, t) ==
  IF t = <<>> THEN FALSE
  ELSE IF s = <<>> THEN TRUE
  ELSE IF Head(s) = Head(t) THEN StrLess(Tail(s), Tail(t))
  ELSE Ord(Head(s)) < Ord(Head(t))

\* strings.HasPrefix(s, p)
HasPrefix(s, p) == Len(s) >= Len(p) /\ SubSeq(s, 1, Len(p)) = p

\* strings.Split(s, "/"): the parts between the separators, empty parts kept.
RECURSIVE SplitAcc(_, _, _)
SplitAcc(s, cur, acc) ==
  IF s = <<>> THEN Append(acc, cur)
  ELSE IF Head(s) = "/" THEN SplitAcc(Tail(s), <<>>, Append(acc, cur))
  ELSE SplitAcc(Tail(s), Append(cur, Head(s)), acc)

Split(s) == SplitAcc(s, <<>>, <<>>)

\* strings.Join(parts, "/")
RECURSIVE Join(_)
Join(parts) ==
  IF parts = <<>> THEN <<>>
  ELSE IF Len(parts) = 1 THEN parts[1]
  ELSE parts[1] \o <<"/">> \o Join(Tail(parts))

\* strings.ReplaceAll(s, old, new) for a two-character old and a
\* one-character new: left to right, non-overlapping.
RECURSIVE ReplaceAll(_, _, _)
ReplaceAll(s, old, new) ==
  IF Len(s) < 2 THEN s
  ELSE IF SubSeq(s, 1, 2) = old THEN <<new>> \o ReplaceAll(SubSeq(s, 3, Len(s)), old, new)
  ELSE <<Head(s)>> \o ReplaceAll(Tail(s), old, new)

Digits == <<"0", "1", "2", "3", "4", "5", "6", "7", "8", "9">>

IsDigit(c) == \E i \in 1..10 : Digits[i] = c

DigitValue(c) == (CHOOSE i \in 1..10 : Digits[i] = c) - 1

RECURSIVE DigitsValue(_, _)
DigitsValue(s, acc) ==
  IF s = <<>> THEN acc ELSE DigitsValue(Tail(s), 10 * acc + DigitValue(Head(s)))

\* Whether s is one or more decimal digits.
AllDigits(s) == s # <<>> /\ \A i \in 1..Len(s) : IsDigit(s[i])

\* strconv.Atoi: an optional sign followed by one or more decimal digits.
AtoiUnsigned(s, neg) ==
  IF AllDigits(s)
  THEN [ok |-> TRUE, v |-> IF neg THEN 0 - DigitsValue(s, 0) ELSE DigitsValue(s, 0)]
  ELSE [ok |-> FALSE, v |-> 0]

Atoi(s) ==
  IF s # <<>> /\ Head(s) \in {"+", "-"} THEN AtoiUnsigned(Tail(s), Head(s) = "-")
  ELSE AtoiUnsigned(s, FALSE)

----------------------------------------------------------------------------
(* Errors                                                                  *)

\* An error value.  msg identifies the format string; where/path/index/
\* size/kind/op are the values formatted into it; is is the set of error
\* values errors.Is reports it to match; cat is the yammy category
\* (wrappedError.parent) of an error made with New.
NoWhere == [File |-> "", Line |-> 0]

NoErr ==
  [msg |-> "", cat |-> "", where |-> NoWhere, path |-> <<>>, index |-> 0,
   size |-> 0, kind |-> "", tok |-> <<>>, is |-> {}, inner |-> ""]

IsErr(e) == e.msg # ""

\* errors.Is(err, target)
ErrorsIs(e, target) == target \in e.is

\* An error value with its structure: a wrappedError has a message, a
\* parent (the category New was called on; nil for the root category) and a
\* cause; the categories are the values defineError made, which are
\* compared by identity; an error of another package has neither parent
\* nor cause nor an Is method.
NilError == [kind |-> "nil"]

defineError(message, parent) ==
  [kind |-> "category", message |-> message, parent |-> parent, cause |-> NilError]

ErrCategory == defineError("yammy error", NilError)

ErrIOCategory == defineError("io error", ErrCategory)

ErrYAMLCategory == defineError("yaml error", ErrCategory)

ErrDirectiveCategory == defineError("directive error", ErrCategory)

ErrVarNotFoundCategory == defineError("variable not found", ErrCategory)

\* e.New(message, cause, args...)
New(e, message, cause) ==
  [kind |-> "wrapped", message |-> message, parent |-> e, cause |-> cause]

\* An error made with errors.New in another package.
Foreign(message) == [kind |-> "foreign", message |-> message]

\* err == target for a target that is a category or an error of another
\* package held in a variable: an error New made is equal to none of them.
SameError(e, target) == e.kind \in {"category", "foreign"} /\ e = target

\* errors.Is(err, target) of the standard library for a target that is
\* not nil: the error is the target, or its Is method says so, or the error
\* it unwraps to is; and wrappedError.Is, wrappedError.Unwrap.
RECURSIVE errorsIs(_, _)
\* An Is method that does not ask the parent.
wrappedIsNoParent(e, other) ==
  SameError(e, other) \/ errorsIs(e.cause, other)

wrappedIs(e, other) ==
  SameError(e, other) \/ errorsIs(e.parent, other) \/ errorsIs(e.cause, other)

errorsIs(e, target) ==
  IF e.kind = "nil" THEN FALSE
  ELSE IF e.kind = "foreign" THEN SameError(e, target)
  ELSE SameError(e, target) \/ wrappedIs(e, target) \/ errorsIs(e.cause, target)

\* var errNotFound = errors.New("can not find nodes matches path")
errNotFound ==
  [NoErr EXCEPT !.msg = "can not find nodes matches path", !.is = {"errNotFound"}]

\* var errAfterLastElement = errors.New("after last element")
errAfterLastElement ==
  [NoErr EXCEPT !.msg = "after last element", !.is = {"errAfterLastElement"}]

\* ErrIO.New and ErrYAML.New with the file the error is about.
ErrIONew(path, message) ==
  [NoErr EXCEPT !.msg = "io error", !.cat = "io error", !.inner = message,
                !.where = [File |-> path, Line |-> 0], !.is = {"ErrIO", "Err"}]

ErrYAMLNew(path, message) ==
  [NoErr EXCEPT !.msg = "yaml error", !.cat = "yaml error", !.inner = message,
                !.where = [File |-> path, Line |-> 0], !.is = {"ErrYAML", "Err"}]

\* ErrDirective.New("%s: %s", nil, where, err.Error()) and its siblings: an
\* error of category ErrDirective whose cause is nil, so that only the
\* category and its ancestor Err are matched by errors.Is.
ErrDirectiveNew(where, e) ==
  [e EXCEPT !.cat = "directive error", !.where = where, !.inner = e.msg,
            !.msg = "directive error", !.is = {"ErrDirective", "Err"}]

----------------------------------------------------------------------------
(* JSON Pointer (util.go)                                                  *)

\* One token of parseJSONPointer: the part unescaped (~1 to /, then ~0 to ~);
\* an index token when it is a non-negative integer or the literal "-",
\* which stands for Index -1.
tokenOf(part, str, a) ==
  [String   |-> str,
   IsIndex  |-> (a.ok /\ a.v > -1) \/ str = <<"-">>,
   Index    |-> IF str = <<"-">> THEN -1 ELSE IF a.ok /\ a.v > -1 THEN a.v ELSE 0,
   Original |-> part]

unescape(part) == ReplaceAll(ReplaceAll(part, <<"~", "1">>, "/"), <<"~", "0">>, "~")

jsonPointerToken(part) == tokenOf(part, unescape(part), Atoi(unescape(part)))

\* parseJSONPointer: fails unless the path starts with "/".
tokensOf(parts) == [i \in 1..Len(parts) |-> jsonPointerToken(parts[i])]

parseJSONPointer(path) ==
  IF ~HasPrefix(path, <<"/">>)
  THEN [err |-> [NoErr EXCEPT !.msg = "Invalid JSON Pointer", !.path = path],
        jp  |-> <<>>]
  ELSE [err |-> NoErr, jp |-> tokensOf(Split(Tail(path)))]

\* jsonPointerToken.IsLastIndex
IsLastIndex(t) == t.IsIndex /\ t.Index < 0

\* jsonPointer.Pop: the pointer without its last token, and that token.
Pop(p) == [parent |-> SubSeq(p, 1, Len(p) - 1), child |-> p[Len(p)]]

\* jsonPointer.String
PointerString(p) == <<"/">> \o Join([i \in 1..Len(p) |-> p[i].Original])

----------------------------------------------------------------------------
(* The node tree (node.go)                                                 *)

\* A node: the yaml.Node fields the engine reads (Kind, Value, Tag, Line),
\* the File it came from, its Content and the capacity of the Content slice.
\* Cap is tracked for sequences, the only nodes whose Content is re-sliced
\* past its length (jsonPatchAdd); it is 0 and never read elsewhere.
\* LineComment is the sequence of the " file:line" texts appended to the
\* line comment of the node, each held as its file and its line; the files
\* of the model carry no comment of their own.
Node(kind, value, tag, file, line, content, cap) ==
  [Kind |-> kind, Value |-> value, Tag |-> tag, File |-> file, Line |-> line,
   Content |-> content, Cap |-> cap, LineComment |-> <<>>]

\* The nil *node.
NilNode == Node("nil", <<>>, "", "", 0, <<>>, 0)

\* newStringNode: a scalar made with yaml.Node.SetString, which carries no
\* position.
newStringNode(s, file) == Node("ScalarNode", s, "!!str", file, 0, <<>>, 0)

\* node.Where
Where(n) == [File |-> n.File, Line |-> n.Line]

\* node.KindString
KindString(n) ==
  CASE n.Kind = "DocumentNode" -> "document"
    [] n.Kind = "SequenceNode" -> "sequence"
    [] n.Kind = "MappingNode"  -> "mapping"
    [] n.Kind = "ScalarNode"   -> "scalar"
    [] n.Kind = "AliasNode"    -> "alias"
    [] OTHER -> "unknown"

\* The capacity append gives a slice of pointers that has to grow from
\* capacity old to hold needed elements (runtime growslice: the needed
\* length when it exceeds twice the old capacity, else twice the old
\* capacity, rounded up to the allocator's size class: 8, 16, 24, 32 bytes,
\* then steps of 16 bytes).
GrowCap(old, needed) ==
  LET want == IF needed > 2 * old THEN needed ELSE 2 * old
  IN  IF want <= 4 THEN want ELSE want + (want % 2)

\* The capacity of append(s, k elements...) for len(s) = len, cap(s) = cap.
AppendCap(len, cap, k) == IF len + k <= cap THEN cap ELSE GrowCap(cap, len + k)

\* initNode builds Content by appending one child at a time to a nil slice.
RECURSIVE InitCap(_)
InitCap(len) == IF len = 0 THEN 0 ELSE AppendCap(len - 1, InitCap(len - 1), 1)

\* The index in Content of the value of the first pair whose key is key, or 0
\* (the search of node.Get, node.HasKey and node.Put).
RECURSIVE ValueIndexFrom(_, _, _)
ValueIndexFrom(content, key, i) ==
  IF i + 1 > Len(content) THEN 0
  ELSE IF content[i].Value = key THEN i + 1
  ELSE ValueIndexFrom(content, key, i + 2)

ValueIndex(n, key) ==
  IF n.Kind # "MappingNode" THEN 0 ELSE ValueIndexFrom(n.Content, key, 1)

\* node.Get
ContentAt(n, i) == IF i = 0 THEN NilNode ELSE n.Content[i]

Get(n, key) == ContentAt(n, ValueIndex(n, key))

\* node.HasKey
HasKey(n, key) == ValueIndex(n, key.Value) # 0

\* node.Delete: every pair whose key is key is dropped; the pairs kept stay
\* in order.  removed is the value returned (nil when no pair matched).
RECURSIVE DeletePairs(_, _, _)
DeletePairs(content, key, i) ==
  IF i + 1 > Len(content) THEN <<>>
  ELSE IF content[i].Value = key THEN DeletePairs(content, key, i + 2)
  ELSE <<content[i], content[i + 1]>> \o DeletePairs(content, key, i + 2)

Delete(n, key) ==
  IF n.Kind # "MappingNode" THEN [n |-> n, removed |-> NilNode]
  ELSE [n |-> [n EXCEPT !.Content = DeletePairs(n.Content, key, 1)],
        removed |-> Get(n, key)]

\* The position at which node.Put inserts a new pair: before the first key
\* that is lexically greater when the new key is a scalar, else at the end.
\* Positions are Go's (0-based).
RECURSIVE PutPosFrom(_, _, _)
PutPosFrom(content, key, i) ==
  IF i + 1 > Len(content) THEN Len(content)
  ELSE IF StrLess(key.Value, content[i].Value) THEN i - 1
  ELSE PutPosFrom(content, key, i + 2)

\* A put that appends every new pair.
PutPosAtEnd(n, key) == Len(n.Content)

PutPos(n, key) ==
  IF key.Kind = "ScalarNode" THEN PutPosFrom(n.Content, key, 1) ELSE Len(n.Content)

\* node.Put: the value of an existing key is replaced in place, a new pair
\* is inserted at PutPos.
\* A put that inserts a pair also for a key the mapping has.
PutAtInserting(n, key, value, vi, pos) ==
  [n EXCEPT !.Content = SubSeq(n.Content, 1, pos) \o <<key, value>>
                          \o SubSeq(n.Content, pos + 1, Len(n.Content))]

PutAt(n, key, value, vi, pos) ==
  IF vi # 0 THEN [n EXCEPT !.Content[vi] = value]
  ELSE [n EXCEPT !.Content = SubSeq(n.Content, 1, pos) \o <<key, value>>
                             \o SubSeq(n.Content, pos + 1, Len(n.Content))]

Put(n, key, value) ==
  IF n.Kind # "MappingNode" THEN n
  ELSE PutAt(n, key, value, ValueIndex(n, key.Value), PutPos(n, key))

\* node.Append
AppendNode(n, value) ==
  IF n.Kind # "SequenceNode" THEN n
  ELSE [n EXCEPT !.Content = Append(n.Content, value),
                 !.Cap = AppendCap(Len(n.Content), n.Cap, 1)]

\* node.Merge: nodes of different kinds, scalars and aliases give the other
\* node; a mapping takes each pair of other in order (an existing key gets
\* the merge of the two values, a new key is Put); a sequence has the
\* elements of other appended.
RECURSIVE Merge(_, _)
RECURSIVE MergePairs(_, _, _)
\* A merge of one pair that keeps the value the mapping already has.
MergePairKeep(n, k, v) == IF HasKey(n, k) THEN n ELSE Put(n, k, v)

MergePair(n, k, v) ==
  Put(n, k, IF HasKey(n, k) THEN Merge(Get(n, k.Value), v) ELSE v)

MergePairs(n, other, i) ==
  IF i + 1 > Len(other.Content) THEN n
  ELSE MergePairs(MergePair(n, other.Content[i], other.Content[i + 1]), other, i + 2)

RECURSIVE AppendAll(_, _, _)
AppendAll(n, other, i) ==
  IF i > Len(other.Content) THEN n
  ELSE AppendAll(AppendNode(n, other.Content[i]), other, i + 1)

Merge(n, other) ==
  IF n.Kind # other.Kind THEN other
  ELSE IF n.Kind = "MappingNode" THEN MergePairs(n, other, 1)
  ELSE IF n.Kind = "SequenceNode" THEN AppendAll(n, other, 1)
  ELSE other

\* The node at loc, a sequence of (1-based) Content indexes from n down.
RECURSIVE NodeAt(_, _)
NodeAt(n, loc) == IF loc = <<>> THEN n ELSE NodeAt(n.Content[Head(loc)], Tail(loc))

\* n with the node at loc replaced by m: the effect of changing, through a
\* pointer, a node that is part of the tree.
RECURSIVE SetAt(_, _, _)
SetAt(n, loc, m) ==
  IF loc = <<>> THEN m
  ELSE [n EXCEPT !.Content[Head(loc)] = SetAt(n.Content[Head(loc)], Tail(loc), m)]

\* findNodeByJSONPointer: a mapping that has the token as a key is entered
\* by key; otherwise a token that is no index is not found, an index on
\* anything but a sequence is an error, "-" is errAfterLastElement and an
\* index beyond the last element is out of bounds.  index is 1-based here.
RECURSIVE findNodeByJSONPointer(_, _, _, _)
RECURSIVE findStep(_, _, _, _, _, _)
findNodeByJSONPointer(n, pointer, index, loc) ==
  IF index = Len(pointer) + 1 THEN [err |-> NoErr, loc |-> loc]
  ELSE findStep(n, pointer, index, loc, pointer[index], ValueIndex(n, pointer[index].String))

findStep(n, pointer, index, loc, t, vi) ==
  IF n.Kind = "MappingNode" /\ vi # 0
  THEN findNodeByJSONPointer(n.Content[vi], pointer, index + 1, Append(loc, vi))
  ELSE IF ~t.IsIndex THEN [err |-> errNotFound, loc |-> <<>>]
  ELSE IF n.Kind # "SequenceNode"
  THEN [err |-> [NoErr EXCEPT !.msg = "can not evaluate an index %d on %s object",
                              !.index = t.Index, !.kind = KindString(n)],
        loc |-> <<>>]
  ELSE IF t.Index < 0 THEN [err |-> errAfterLastElement, loc |-> loc]
  ELSE IF t.Index >= Len(n.Content)
  THEN [err |-> [NoErr EXCEPT !.msg = "out of bounds index %d", !.index = t.Index],
        loc |-> <<>>]
  ELSE findNodeByJSONPointer(n.Content[t.Index + 1], pointer, index + 1,
                             Append(loc, t.Index + 1))

\* node.FindNodeByJSONPointer: the path "/" is the node itself; an error of
\* the walk is returned as a new error made of the path and the message of
\* the cause, fmt.Errorf("%s: %s", path, err.Error()), which errors.Is
\* matches with no other error.
findWrapped(path, r) ==
  IF IsErr(r.err)
  THEN [err |-> [r.err EXCEPT !.msg = "%s: %s", !.inner = r.err.msg,
                              !.path = path, !.is = {}],
        loc |-> <<>>]
  ELSE r

findParsed(n, path, p) ==
  IF IsErr(p.err) THEN [err |-> p.err, loc |-> <<>>]
  ELSE IF path = <<"/">> THEN [err |-> NoErr, loc |-> <<>>]
  ELSE findWrapped(path, findNodeByJSONPointer(n, p.jp, 1, <<>>))

FindNodeByJSONPointer(n, path) == findParsed(n, path, parseJSONPointer(path))

----------------------------------------------------------------------------
(* The patch interpreter (load.go)                                         *)

\* A run-time panic: it is no error value; it unwinds through every caller
\* and ends the program.
Panic(what) == [NoErr EXCEPT !.msg = what, !.is = {"panic"}]

IsPanic(e) == "panic" \in e.is

\* newSequenceNode and newMappingNode: an empty container of the given file.
newSequenceNode(file) == Node("SequenceNode", <<>>, "!!seq", file, 0, <<>>, 0)

newMappingNode(file) == Node("MappingNode", <<>>, "!!map", file, 0, <<>>, 0)

\* ensureJSONPointerParent: walks every token but the last from the root;
\* a mapping that lacks the token gets a new container under it (a sequence
\* when the next token is an index, else a mapping) and is entered; an
\* index token on a sequence that is too short reads Content past its end;
\* anything else is an error.  What was created before an error stays.
\* i is 1-based; ploc is the place of the current parent.
RECURSIVE ensureFrom(_, _, _, _)
RECURSIVE ensureStep(_, _, _, _, _, _)
RECURSIVE ensureEnter(_, _, _, _, _, _)
ensureFrom(n, pointer, i, ploc) ==
  IF i > Len(pointer) - 1 THEN [n |-> n, err |-> NoErr]
  ELSE ensureStep(n, pointer, i, ploc, pointer[i], NodeAt(n, ploc))

ensureStep(n, pointer, i, ploc, t, parent) ==
  IF t.IsIndex /\ parent.Kind = "SequenceNode" /\ Len(parent.Content) <= t.Index
  THEN [n |-> n, err |-> Panic("panic: index out of range")]
  ELSE IF parent.Kind = "MappingNode"
  THEN ensureEnter(n, pointer, i, ploc, t,
         IF Get(parent, t.String) # NilNode THEN parent
         ELSE Put(parent, newStringNode(t.String, parent.File),
                  IF pointer[i + 1].IsIndex THEN newSequenceNode(parent.File)
                                            ELSE newMappingNode(parent.File)))
  ELSE [n |-> n,
        err |-> [NoErr EXCEPT !.msg = "can not evaluate an index %s on %T object",
                              !.tok = t.String]]

ensureEnter(n, pointer, i, ploc, t, p2) ==
  ensureFrom(SetAt(n, ploc, p2), pointer, i + 1, Append(ploc, ValueIndex(p2, t.String)))

ensureJSONPointerParent(obj, pointer) == ensureFrom(obj, pointer, 1, <<>>)

\* jsonPatchAdd, from the resolved parent on: on a sequence with an index
\* token the value is appended ("-") or inserted before the index, an index
\* above the length is an error; on a mapping the key is Put; any other
\* parent is an error.  The insertion re-slices Content to i+1 elements
\* first, which panics when i+1 exceeds the capacity.
addInsert(n, loc, target, i, len, newValue) ==
  IF i + 1 > target.Cap
  THEN [n |-> n, err |-> Panic("panic: slice bounds out of range")]
  ELSE [n |-> SetAt(n, loc,
                [target EXCEPT
                   !.Content = SubSeq(target.Content, 1, i) \o <<newValue>>
                               \o SubSeq(target.Content, i + 1, len),
                   !.Cap = AppendCap(i + 1, target.Cap, len - i)]),
        err |-> NoErr]

\* An add that appends to the sequence before it looks at the index.
addAtAppendFirst(n, loc, target, child, parentPath, newValue) ==
  IF child.IsIndex /\ target.Kind = "SequenceNode" /\ child.Index > Len(target.Content)
  THEN [n |-> SetAt(n, loc, AppendNode(target, newValue)),
        err |-> [NoErr EXCEPT
                   !.msg = "can not perform an add value before index %d(path: %s, size: %d)",
                   !.index = child.Index, !.path = parentPath,
                   !.size = Len(target.Content)]]
  ELSE [n |-> n, err |-> NoErr]

addAt(n, loc, target, child, parentPath, newValue) ==
  IF child.IsIndex /\ target.Kind = "SequenceNode"
  THEN IF child.Index < 0
       THEN [n |-> SetAt(n, loc, AppendNode(target, newValue)), err |-> NoErr]
       ELSE IF child.Index > Len(target.Content)
       THEN [n |-> n,
             err |-> [NoErr EXCEPT
                        !.msg = "can not perform an add value before index %d(path: %s, size: %d)",
                        !.index = child.Index, !.path = parentPath,
                        !.size = Len(target.Content)]]
       ELSE addInsert(n, loc, target, child.Index, Len(target.Content), newValue)
  ELSE IF target.Kind = "MappingNode"
  THEN [n |-> SetAt(n, loc, Put(target, newStringNode(child.String, n.File), newValue)),
        err |-> NoErr]
  ELSE [n |-> n,
        err |-> [NoErr EXCEPT
                   !.msg = "can not perform an add '%s' key operation on (an) %s node(path: %s)",
                   !.tok = child.Original, !.kind = KindString(target),
                   !.path = parentPath]]

addFound(n, jp, newValue, f) ==
  IF IsErr(f.err) THEN [n |-> n, err |-> f.err]
  ELSE addAt(n, f.loc, NodeAt(n, f.loc), Pop(jp).child, PointerString(Pop(jp).parent),
             newValue)

addEnsured(jp, newValue, ens) ==
  IF IsErr(ens.err) THEN ens
  ELSE addFound(ens.n, jp, newValue,
                FindNodeByJSONPointer(ens.n, PointerString(Pop(jp).parent)))

addResolved(n, jp, newValue, f) ==
  IF ErrorsIs(f.err, "errNotFound")
  THEN addEnsured(jp, newValue, ensureJSONPointerParent(n, jp))
  ELSE addFound(n, jp, newValue, f)

\* jsonPatchAdd: resolves the parent, creating it when the lookup reports
\* errNotFound.
jsonPatchAdd(n, jp, newValue) ==
  addResolved(n, jp, newValue, FindNodeByJSONPointer(n, PointerString(Pop(jp).parent)))

\* jsonPatchRemove: resolves the parent; on a sequence with a concrete index
\* the element is spliced out (an index at or above the length is an
\* error); on a mapping the key is deleted (an absent key is an error); any
\* other case is an error.
\* A removal of a key that reports nothing when the key is absent.
removeKeyQuiet(n, jp, loc, d) == [n |-> SetAt(n, loc, d.n), err |-> NoErr]

removeKey(n, jp, loc, d) ==
  IF d.removed = NilNode
  THEN [n |-> n,
        err |-> [NoErr EXCEPT !.msg = "can not remove a value %s(value does not exist)",
                              !.path = PointerString(jp)]]
  ELSE [n |-> SetAt(n, loc, d.n), err |-> NoErr]

removeAt(n, jp, loc, target, child, parentPath) ==
  IF child.IsIndex /\ ~IsLastIndex(child) /\ target.Kind = "SequenceNode"
  THEN IF child.Index >= Len(target.Content)
       THEN [n |-> n,
             err |-> [NoErr EXCEPT
                        !.msg = "can not remove a value at index %d(path: %s, size: %d)",
                        !.index = child.Index, !.path = parentPath,
                        !.size = Len(target.Content)]]
       ELSE [n |-> SetAt(n, loc,
                     [target EXCEPT
                        !.Content = SubSeq(target.Content, 1, child.Index)
                                    \o SubSeq(target.Content, child.Index + 2,
                                              Len(target.Content))]),
             err |-> NoErr]
  ELSE IF target.Kind = "MappingNode"
  THEN removeKey(n, jp, loc, Delete(target, child.String))
  ELSE [n |-> n,
        err |-> [NoErr EXCEPT
                   !.msg = "can not perform a remove operation on (an) %s node(path: %s)",
                   !.kind = KindString(target), !.path = parentPath]]

\* A removal that removes nothing.
removeNothing(n, jp) == [n |-> n, err |-> NoErr]

removeFound(n, jp, f) ==
  IF IsErr(f.err) THEN [n |-> n, err |-> f.err]
  ELSE removeAt(n, jp, f.loc, NodeAt(n, f.loc), Pop(jp).child,
                PointerString(Pop(jp).parent))

jsonPatchRemove(n, jp) ==
  removeFound(n, jp, FindNodeByJSONPointer(n, PointerString(Pop(jp).parent)))

\* The keys and operation names of a patch object.
K_op == <<"o", "p">>
K_path == <<"p", "a", "t", "h">>
K_value == <<"v", "a", "l", "u", "e">>
K_source == <<"s", "o", "u", "r", "c", "e">>
OpAdd == <<"a", "d", "d">>
OpRemove == <<"r", "e", "m", "o", "v", "e">>
OpReplace == <<"r", "e", "p", "l", "a", "c", "e">>

\* An error of a patch is reported as a directive error at the patch's own
\* position; a panic is no error value and is not wrapped.
patchFail(n, patchNode, e) == [n |-> n, err |-> ErrDirectiveNew(Where(patchNode), e)]

patchDone(patchNode, r) ==
  IF IsErr(r.err) /\ ~IsPanic(r.err)
  THEN [n |-> r.n, err |-> ErrDirectiveNew(Where(patchNode), r.err)]
  ELSE r

\* replace lets an add error that is errNotFound pass.
replaceDone(patchNode, a) ==
  IF IsErr(a.err) /\ ErrorsIs(a.err, "errNotFound") THEN [n |-> a.n, err |-> NoErr]
  ELSE patchDone(patchNode, a)

patchParsed(n, patchNode, op, p, newValue) ==
  IF IsErr(p.err) THEN patchFail(n, patchNode, p.err)
  ELSE IF op = OpAdd THEN patchDone(patchNode, jsonPatchAdd(n, p.jp, newValue))
  ELSE IF op = OpRemove THEN patchDone(patchNode, jsonPatchRemove(n, p.jp))
  ELSE IF op = OpReplace
  THEN replaceDone(patchNode, jsonPatchAdd(jsonPatchRemove(n, p.jp).n, p.jp, newValue))
  ELSE patchFail(n, patchNode,
                 [NoErr EXCEPT !.msg = "unsupported patch operation: %s", !.tok = op])

\* processPatchNode: one patch applied to the tree n; replace removes
\* (whatever that gives) and then adds.
processPatchNode(n, patchNode) ==
  IF patchNode = NilNode THEN [n |-> n, err |-> NoErr]
  ELSE IF patchNode.Kind # "MappingNode"
  THEN patchFail(n, patchNode, [NoErr EXCEPT !.msg = "invalid patch"])
  ELSE IF Get(patchNode, K_path) = NilNode \/ Get(patchNode, K_op) = NilNode
  THEN patchFail(n, patchNode,
                 [NoErr EXCEPT !.msg = "invalid patch(op and path are required)"])
  ELSE patchParsed(n, patchNode, Get(patchNode, K_op).Value,
                   parseJSONPointer(Get(patchNode, K_path).Value),
                   Get(patchNode, K_value))

----------------------------------------------------------------------------
(* Parsed documents                                                        *)

\* newNode / initNode applied to what the YAML parser returns: every node of
\* a file carries that file and its line; a sequence's Content was appended
\* to one element at a time.
Scalar(v, file, line) == Node("ScalarNode", v, "!!str", file, line, <<>>, 0)

MapNode(content, file, line) == Node("MappingNode", <<>>, "!!map", file, line, content, 0)

SeqNode(content, file, line) ==
  Node("SequenceNode", <<>>, "!!seq", file, line, content, InitCap(Len(content)))

\* strconv.Itoa for 0..99.
Itoa(i) ==
  IF i < 10 THEN <<Digits[i + 1]>>
  ELSE <<Digits[(i \div 10) + 1], Digits[(i % 10) + 1]>>

\* The pointer "/t1/.../tn" of the tokens t1..tn.
PathOf(tokens) == <<"/">> \o Join(tokens)

\* A patch object as parsed from a directive block written in block style:
\* op on the line of the patch, path on the next line, value on the line
\* after that (vline); a patch without value has no value pair.
PatchNode(op, path, value, file, line) ==
  MapNode(<<Scalar(K_op, file, line), Scalar(op, file, line),
            Scalar(K_path, file, line + 1), Scalar(path, file, line + 1)>>
          \o (IF value = NilNode THEN <<>>
              ELSE <<Scalar(K_value, file, value.Line), value>>),
          file, line)

\* One patch of the options as Load makes it: the map marshalled to YAML
\* and parsed again (its keys in order), every position cleared to line 1
\* (ClearPosition), every node attributed to the source when there is one
\* and to "<LoadOption.JSONPatches>" otherwise.
jsonPatchPairs(m, file) ==
  <<Scalar(K_op, file, 1), Scalar(m.op, file, 1),
    Scalar(K_path, file, 1), Scalar(m.path, file, 1)>>
  \o (IF m.source = "" THEN <<>>
      ELSE <<Scalar(K_source, file, 1),
             Node("ScalarNode", m.source, "!!str", file, 1, <<>>, 0)>>)
  \o (IF m.value = <<>> THEN <<>>
      ELSE <<Scalar(K_value, file, 1), Scalar(m.value, file, 1)>>)

jsonPatchNode(m) ==
  IF m.source = ""
  THEN MapNode(jsonPatchPairs(m, "<LoadOption.JSONPatches>"), "<LoadOption.JSONPatches>", 1)
  ELSE MapNode(jsonPatchPairs(m, m.source), m.source, 1)

----------------------------------------------------------------------------
(* Variable expander (util.go)                                             *)

\* Errors of the category ErrVarNotFound, made by a resolver for a key.
ErrVarNotFoundNew(key) ==
  [NoErr EXCEPT !.msg = "variable not found", !.cat = "variable not found",
                !.inner = "%s not found", !.tok = key,
                !.is = {"ErrVarNotFound", "Err"}]

\* isVarName(c, i): i is the index of c in the whole scalar.
IsLetter(c) ==
  \E k \in 1..95 : AsciiChars[k] = c /\ (k \in 34..59 \/ k \in 66..91)

isVarName(c, i) ==
  \/ IsLetter(c)
  \/ i # 0 /\ (IsDigit(c) \/ c = "_" \/ c = "-")

\* strings.Contains(s, c) for a one-character c.
Contains(s, c) == \E k \in 1..Len(s) : s[k] = c

\* strings.ReplaceAll(s, c, `\` + c) for a one-character c.
RECURSIVE Escaped(_, _)
Escaped(s, c) ==
  IF s = <<>> THEN <<>>
  ELSE IF Head(s) = c THEN <<"\\", c>> \o Escaped(Tail(s), c)
  ELSE <<Head(s)>> \o Escaped(Tail(s), c)

\* strings.ToLower for one ASCII character.
LowerAt(k) == IF k \in 34..59 THEN AsciiChars[k + 32] ELSE AsciiChars[k]

Lower(c) == LowerAt(CHOOSE k \in 1..95 : AsciiChars[k] = c)

ToLower(s) == [k \in 1..Len(s) |-> Lower(s[k])]

\* strconv.ParseFloat(s, 64) succeeds: an optional sign, then "inf",
\* "infinity" or "nan" in any case, or decimal digits with an optional
\* point (a digit on at least one side) and an optional exponent.  The
\* strings here hold no hexadecimal float and no underscore between digits,
\* and no number too large for a float64.
RECURSIVE DigitRun(_, _)
DigitRun(s, k) ==
  IF k <= Len(s) /\ IsDigit(s[k]) THEN DigitRun(s, k + 1) ELSE k

IsExponent(s) ==
  /\ Len(s) >= 2
  /\ s[1] \in {"e", "E"}
  /\ AllDigits(IF s[2] \in {"+", "-"} THEN SubSeq(s, 3, Len(s)) ELSE Tail(s))

floatTail(s, k, intDigits) ==
  IF k <= Len(s) /\ s[k] = "."
  THEN /\ intDigits + (DigitRun(s, k + 1) - (k + 1)) > 0
       /\ \/ DigitRun(s, k + 1) > Len(s)
          \/ IsExponent(SubSeq(s, DigitRun(s, k + 1), Len(s)))
  ELSE /\ intDigits > 0
       /\ (k > Len(s) \/ IsExponent(SubSeq(s, k, Len(s))))

IsFloatBody(s) ==
  \/ ToLower(s) \in {<<"i", "n", "f">>, <<"i", "n", "f", "i", "n", "i", "t", "y">>}
  \/ floatTail(s, DigitRun(s, 1), DigitRun(s, 1) - 1)

ParseFloatOK(s) ==
  \/ ToLower(s) = <<"n", "a", "n">>
  \/ IF s # <<>> /\ Head(s) \in {"+", "-"} THEN IsFloatBody(Tail(s)) ELSE IsFloatBody(s)

\* guessScalarNodeTag
guessScalarNodeTag(s) ==
  IF s = <<"n", "u", "l", "l">> THEN "null"
  ELSE IF s \in {<<"t", "r", "u", "e">>, <<"f", "a", "l", "s", "e">>, <<"y", "e", "s">>,
                 <<"n", "o">>, <<"o", "n">>, <<"o", "f", "f">>}
  THEN "bool"
  ELSE IF Atoi(s).ok THEN "int"
  ELSE IF ParseFloatOK(s) THEN "float"
  ELSE "str"

\* shouldQuote: \s matches the space, the only white space of the strings
\* here.
shouldQuote(s) ==
  \/ Contains(s, "}")
  \/ Contains(s, "\"")
  \/ guessScalarNodeTag(s) # "str"
  \/ Contains(s, " ")

\* quote
quote(s) == <<"\"">> \o Escaped(Escaped(s, "\\"), "\"") \o <<"\"">>

\* parseVarString(v, i, '"'), after the opening quote is skipped: i is the
\* 0-based index of the byte looked at.  end is -1 when the string ends
\* before the closing quote.
RECURSIVE parseVarStringFrom(_, _, _)
parseVarStringFrom(v, i, buf) ==
  IF i >= Len(v) THEN [value |-> buf, end |-> 0 - 1]
  ELSE IF v[i + 1] = "\\" /\ i # Len(v) - 1
  THEN (IF v[i + 2] \in {"\"", "\\"}
        THEN parseVarStringFrom(v, i + 2, Append(buf, v[i + 2]))
        ELSE parseVarStringFrom(v, i + 1, Append(buf, "\\")))
  ELSE IF v[i + 1] = "\"" THEN [value |-> buf, end |-> i + 1]
  ELSE parseVarStringFrom(v, i + 1, Append(buf, v[i + 1]))

parseVarString(v, i) == parseVarStringFrom(v, i + 1, <<>>)

\* A reference expandVar has found: the 0-based indexes of its "$" and of
\* the byte after its "}", its name, its default and its inferred type.
vvv(start, end, name, def, tag) ==
  [start |-> start, end |-> end, name |-> name, def |-> def, tag |-> tag]

\* The index of the first byte from i on that cannot be part of a name.
RECURSIVE nameEnd(_, _)
nameEnd(v, j) ==
  IF j < Len(v) /\ isVarName(v[j + 1], j) THEN nameEnd(v, j + 1) ELSE j

\* The index of the first "}" from j on, or len(v).
RECURSIVE braceFrom(_, _)
braceFrom(v, j) ==
  IF j < Len(v) /\ v[j + 1] # "}" THEN braceFrom(v, j + 1) ELSE j

\* The scanning loop of expandVar: i is the 0-based index of the byte
\* looked at, state the state of the switch.
RECURSIVE scanVars(_, _, _, _, _, _)
\* The initial state without the escape: a "$" is skipped unless a "{"
\* follows it.
scanInitialNoEscape(v, i, vars) ==
  IF v[i + 1] = "$" /\ i # Len(v) - 1 /\ v[i + 2] = "{"
  THEN scanVars(v, i + 1, 1, i, <<>>, vars)
  ELSE scanVars(v, i + 1, 0, 0 - 1, <<>>, vars)

scanInitial(v, i, vars) ==
  IF v[i + 1] = "$" /\ i # Len(v) - 1
  THEN (IF v[i + 2] = "$" THEN scanVars(v, i + 2, 0, 0 - 1, <<>>, vars)
        ELSE IF v[i + 2] = "{" THEN scanVars(v, i + 1, 1, i, <<>>, vars)
        ELSE scanVars(v, i + 1, 0, 0 - 1, <<>>, vars))
  ELSE scanVars(v, i + 1, 0, 0 - 1, <<>>, vars)

scanName(v, i, varStarts, vars, j) ==
  IF j = i THEN scanInitial(v, i, vars)
  ELSE scanVars(v, j, 3, varStarts, SubSeq(v, i + 1, j), vars)

scanAfterName(v, i, varStarts, varName, vars) ==
  IF v[i + 1] = ":" THEN scanVars(v, i + 1, 4, varStarts, varName, vars)
  ELSE IF v[i + 1] = "}"
  THEN scanVars(v, i + 1, 0, varStarts, varName,
                Append(vars, vvv(varStarts, i + 1, varName, <<>>, "str")))
  ELSE scanVars(v, i + 1, 3, varStarts, varName, vars)

scanQuoted(v, i, varStarts, varName, vars, p) ==
  IF p.end < 0 \/ Len(v) = p.end THEN scanVars(v, i + 1, 0, varStarts, varName, vars)
  ELSE IF v[p.end + 1] = "}"
  THEN scanVars(v, p.end, 0, varStarts, varName,
                Append(vars, vvv(varStarts, p.end + 1, varName, p.value, "str")))
  ELSE scanVars(v, p.end, 0, varStarts, varName, vars)

\* An unquoted default that the end of the string closes as "}" does.
scanUnquotedToEnd(v, i, varStarts, varName, vars, j) ==
  scanVars(v, j, 0, varStarts, varName,
           Append(vars, vvv(varStarts, IF j = Len(v) THEN j ELSE j + 1, varName,
                            SubSeq(v, i + 1, j),
                            guessScalarNodeTag(SubSeq(v, i + 1, j)))))

scanUnquoted(v, i, varStarts, varName, vars, j) ==
  IF j = Len(v) THEN scanVars(v, i + 1, 0, varStarts, varName, vars)
  ELSE scanVars(v, j, 0, varStarts, varName,
                Append(vars, vvv(varStarts, j + 1, varName, SubSeq(v, i + 1, j),
                                 guessScalarNodeTag(SubSeq(v, i + 1, j)))))

scanDefault(v, i, varStarts, varName, vars) ==
  IF v[i + 1] = "\""
  THEN scanQuoted(v, i, varStarts, varName, vars, parseVarString(v, i))
  ELSE scanUnquoted(v, i, varStarts, varName, vars, braceFrom(v, i))

scanVars(v, i, state, varStarts, varName, vars) ==
  IF i >= Len(v) THEN vars
  ELSE IF state = 0 THEN scanInitial(v, i, vars)
  ELSE IF state = 1 THEN scanVars(v, i + 1, 2, varStarts, varName, vars)
  ELSE IF state = 2 THEN scanName(v, i, varStarts, vars, nameEnd(v, i))
  ELSE IF state = 3 THEN scanAfterName(v, i, varStarts, varName, vars)
  ELSE scanDefault(v, i, varStarts, varName, vars)

\* What a resolver returns: a value and an error.
Resolved(value, err) == [v |-> value, err |-> err]

\* envVarResolver over the environment env, a function from the names that
\* are set to their values.
envVarResolver(env, key) ==
  IF key \in DOMAIN env THEN Resolved(env[key], NoErr)
  ELSE Resolved(<<>>, ErrVarNotFoundNew(key))

\* newDirectiveVarResolver(vars)
directiveFound(v, key) ==
  IF v.Kind # "ScalarNode"
  THEN Resolved(<<>>, ErrDirectiveNew(NoWhere,
                        [NoErr EXCEPT !.msg = "variable %s must be a scalar node",
                                      !.tok = key]))
  ELSE Resolved(v.Value, NoErr)

directiveVarResolver(variables, key) ==
  IF variables # NilNode /\ variables.Kind = "MappingNode" /\ Get(variables, key) # NilNode
  THEN directiveFound(Get(variables, key), key)
  ELSE Resolved(<<>>, ErrVarNotFoundNew(key))

\* A resolver given with the options: a function from the names it knows to
\* what it returns for them; any other name is not found.
customVarResolver(f, key) ==
  IF key \in DOMAIN f THEN f[key] ELSE Resolved(<<>>, ErrVarNotFoundNew(key))

\* newCompositeVarResolver of two resolvers: the second is asked only when
\* the first returns an error that is ErrVarNotFound.
compositeOrderSwapped(first, second, key) ==
  IF ErrorsIs(second.err, "ErrVarNotFound")
  THEN (IF ErrorsIs(first.err, "ErrVarNotFound")
        THEN Resolved(<<>>, ErrVarNotFoundNew(key)) ELSE first)
  ELSE second

compositeVarResolver(first, second, key) ==
  IF ErrorsIs(first.err, "ErrVarNotFound")
  THEN (IF ErrorsIs(second.err, "ErrVarNotFound")
        THEN Resolved(<<>>, ErrVarNotFoundNew(key)) ELSE second)
  ELSE first

\* The resolver Load builds: the resolver of the options when there is one
\* and the environment otherwise, then the directive variables.
NoResolver == [set |-> FALSE, f |-> <<>>]

CustomResolver(f) == [set |-> TRUE, f |-> f]

VarResolverOf(custom, env, variables) ==
  [custom |-> custom, env |-> env, variables |-> variables]

firstResolver(r, key) ==
  IF ~r.custom.set THEN envVarResolver(r.env, key)
  ELSE customVarResolver(r.custom.f, key)

resolv(r, key) ==
  compositeVarResolver(firstResolver(r, key), directiveVarResolver(r.variables, key), key)

\* What expandVar returns, with the keys it asked the resolver for.
Expanded(out, err, calls) == [out |-> out, err |-> err, calls |-> calls]

\* A substitution without the case of the empty text: the resolved text
\* goes in as it is.
substitutedBare(vv, resolved, isSingleVariable) ==
  IF vv.tag = "str" /\ isSingleVariable /\ shouldQuote(resolved) THEN quote(resolved)
  ELSE resolved

\* What replaces a reference: the resolved text in the substituting mode,
\* the reference with the resolved text for default when the expressions
\* are kept.
substituted(vv, resolved, isSingleVariable) ==
  IF resolved = <<>> /\ isSingleVariable THEN <<"\"", "\"">>
  ELSE IF vv.tag = "str" /\ isSingleVariable /\ shouldQuote(resolved) THEN quote(resolved)
  ELSE resolved

\* A kept reference whose new default is never quoted.
keptUnquoted(vv, resolved) ==
  IF resolved = <<>> THEN <<"$", "{">> \o vv.name \o <<"}">>
  ELSE <<"$", "{">> \o vv.name \o <<":">> \o resolved \o <<"}">>

kept(vv, resolved) ==
  IF resolved = <<>> THEN <<"$", "{">> \o vv.name \o <<"}">>
  ELSE IF vv.tag = "str" /\ shouldQuote(resolved)
  THEN <<"$", "{">> \o vv.name \o <<":">> \o quote(resolved) \o <<"}">>
  ELSE <<"$", "{">> \o vv.name \o <<":">> \o resolved \o <<"}">>

replacement(v, vars, vv, resolved, keepsVariables) ==
  IF keepsVariables THEN kept(vv, resolved)
  ELSE substituted(vv, resolved, Len(vars) = 1 /\ vv.end = Len(v) /\ vv.start = 0)

\* The loop of expandVar over the references found: k is the reference the
\* loop is at, offset the index after the reference before it.
RECURSIVE assemble(_, _, _, _, _, _, _, _)
assembleNext(v, vars, r, keepsVariables, k, ret, calls, resolved) ==
  assemble(v, vars, r, keepsVariables, k + 1, vars[k].end,
           ret \o replacement(v, vars, vars[k], resolved, keepsVariables),
           calls)

\* A loop body that takes the default of a reference that is not found
\* also when the default is empty.
assembleResolvedLenient(v, vars, r, keepsVariables, k, ret, calls, got) ==
  IF ~IsErr(got.err)
  THEN assembleNext(v, vars, r, keepsVariables, k, ret, calls, got.v)
  ELSE IF ErrorsIs(got.err, "ErrVarNotFound")
  THEN assembleNext(v, vars, r, keepsVariables, k, ret, calls, vars[k].def)
  ELSE Expanded(<<>>, got.err, calls)

assembleResolved(v, vars, r, keepsVariables, k, ret, calls, got) ==
  IF ~IsErr(got.err)
  THEN assembleNext(v, vars, r, keepsVariables, k, ret, calls, got.v)
  ELSE IF ErrorsIs(got.err, "ErrVarNotFound") /\ ~(vars[k].def = <<>> /\ ~keepsVariables)
  THEN assembleNext(v, vars, r, keepsVariables, k, ret, calls, vars[k].def)
  ELSE Expanded(<<>>, got.err, calls)

\* A loop that is not followed by the copy of the text after the last
\* reference.
assembleWithoutRest(v, vars, r, keepsVariables, k, offset, ret, calls) ==
  IF k > Len(vars) THEN Expanded(ret, NoErr, calls)
  ELSE assembleResolved(v, vars, r, keepsVariables, k,
                        ret \o SubSeq(v, offset + 1, vars[k].start),
                        Append(calls, vars[k].name), resolv(r, vars[k].name))

assemble(v, vars, r, keepsVariables, k, offset, ret, calls) ==
  IF k > Len(vars) THEN Expanded(ret \o SubSeq(v, offset + 1, Len(v)), NoErr, calls)
  ELSE assembleResolved(v, vars, r, keepsVariables, k,
                        ret \o SubSeq(v, offset + 1, vars[k].start),
                        Append(calls, vars[k].name), resolv(r, vars[k].name))

\* expandVar(v, resolv, keepsVariables)
expanded(v, vars, r, keepsVariables) ==
  IF vars = <<>> THEN Expanded(v, NoErr, <<>>)
  ELSE assemble(v, vars, r, keepsVariables, 1, 0, <<>>, <<>>)

expandVar(v, r, keepsVariables) ==
  expanded(v, scanVars(v, 0, 0, 0 - 1, <<>>, <<>>), r, keepsVariables)

\* What yaml.Unmarshal of a substituted text followed by mustRootNode gives
\* (load.go, processVars): the value and the tag of the node, or an error.
\* known is FALSE for a text outside the forms described here, for which
\* nothing is said: a mapping, a sequence, a comment, a timestamp, a number
\* that is not decimal, an escape other than \\ and \".
Parsed(value, tag) == [known |-> TRUE, err |-> FALSE, Value |-> value, Tag |-> tag]

ParseFails == [known |-> TRUE, err |-> TRUE, Value |-> <<>>, Tag |-> ""]

NotModelled == [known |-> FALSE, err |-> FALSE, Value |-> <<>>, Tag |-> ""]

\* A double-quoted scalar: the text after the opening quote, up to the
\* closing quote, which must end the text.
RECURSIVE yamlDoubleQuoted(_, _, _)
yamlDoubleQuoted(s, k, buf) ==
  IF k > Len(s) THEN ParseFails
  ELSE IF s[k] = "\""
  THEN (IF k = Len(s) THEN Parsed(buf, "!!str") ELSE NotModelled)
  ELSE IF s[k] = "\\"
  THEN (IF k < Len(s) /\ s[k + 1] \in {"\\", "\""}
        THEN yamlDoubleQuoted(s, k + 2, Append(buf, s[k + 1]))
        ELSE NotModelled)
  ELSE yamlDoubleQuoted(s, k + 1, Append(buf, s[k]))

\* The float of YAML: [-+]?(\.[0-9]+|[0-9]+(\.[0-9]*)?)([eE][-+]?[0-9]+)?
yamlFloatTail(s, k, intDigits) ==
  IF k <= Len(s) /\ s[k] = "."
  THEN /\ (intDigits > 0 \/ DigitRun(s, k + 1) > k + 1)
       /\ \/ DigitRun(s, k + 1) > Len(s)
          \/ IsExponent(SubSeq(s, DigitRun(s, k + 1), Len(s)))
  ELSE /\ intDigits > 0
       /\ (k > Len(s) \/ IsExponent(SubSeq(s, k, Len(s))))

yamlFloatBody(s) == yamlFloatTail(s, DigitRun(s, 1), DigitRun(s, 1) - 1)

IsYamlFloat(s) ==
  IF s # <<>> /\ Head(s) \in {"+", "-"} THEN yamlFloatBody(Tail(s)) ELSE yamlFloatBody(s)

\* The tag the resolver of the YAML library gives a plain scalar.
yamlNulls == {<<"~">>, <<"n", "u", "l", "l">>, <<"N", "u", "l", "l">>, <<"N", "U", "L", "L">>}

yamlBools ==
  {<<"t", "r", "u", "e">>, <<"T", "r", "u", "e">>, <<"T", "R", "U", "E">>,
   <<"f", "a", "l", "s", "e">>, <<"F", "a", "l", "s", "e">>, <<"F", "A", "L", "S", "E">>}

yamlPlain(s) ==
  IF s \in yamlNulls THEN Parsed(s, "!!null")
  ELSE IF s \in yamlBools THEN Parsed(s, "!!bool")
  ELSE IF Head(s) \in {"+", "-", "."} \/ IsDigit(Head(s))
  THEN (IF Atoi(s).ok THEN Parsed(s, "!!int")
        ELSE IF IsYamlFloat(s) THEN Parsed(s, "!!float")
        ELSE NotModelled)
  ELSE Parsed(s, "!!str")

\* A text that is one plain scalar on one line: it starts with a letter, a
\* digit, a sign or one of "~", "$", "." and "\", and holds no ": ", no
\* " #", no ":" at its end and no space at its end.
PlainStart(c) == IsLetter(c) \/ IsDigit(c) \/ c \in {"~", "$", ".", "\\", "+", "-"}

IsPlain(s) ==
  /\ PlainStart(s[1])
  /\ s[Len(s)] \notin {" ", ":"}
  /\ \A k \in 1..(Len(s) - 1) :
       /\ ~(s[k] = ":" /\ s[k + 1] = " ")
       /\ ~(s[k] = " " /\ s[k + 1] = "#")
  /\ (s[1] \in {"+", "-"} => Len(s) > 1 /\ s[2] # " ")

yamlScalar(s) ==
  IF s = <<>> THEN Parsed(<<>>, "")
  ELSE IF s[1] = "\"" THEN yamlDoubleQuoted(s, 2, <<>>)
  ELSE IF s[1] = "[" /\ ~Contains(s, "]") THEN ParseFails
  ELSE IF IsPlain(s) THEN yamlPlain(s)
  ELSE NotModelled

\* What processVars returns: the tree and the error; known is FALSE when a
\* substituted text is outside the forms yamlScalar describes.
Processed(n, err) == [n |-> n, err |-> err, known |-> TRUE]

\* A scalar that takes the value of the parsed text and stays a string.
reparsedAsString(n, y) ==
  IF ~y.known THEN [n |-> n, err |-> NoErr, known |-> FALSE]
  ELSE IF y.err
  THEN Processed(n, [ErrYAMLNew(n.File, "%s: failed to parse a variable")
                       EXCEPT !.where = Where(n)])
  ELSE Processed([n EXCEPT !.Kind = "ScalarNode", !.Value = y.Value], NoErr)

\* processVars on a scalar whose tag is !!str.
reparsed(n, y) ==
  IF ~y.known THEN [n |-> n, err |-> NoErr, known |-> FALSE]
  ELSE IF y.err
  THEN Processed(n, [ErrYAMLNew(n.File, "%s: failed to parse a variable")
                       EXCEPT !.where = Where(n)])
  ELSE Processed([n EXCEPT !.Kind = "ScalarNode", !.Value = y.Value, !.Tag = y.Tag], NoErr)

scalarExpanded(n, e) ==
  IF IsErr(e.err) THEN Processed(n, e.err)
  ELSE IF n.Value # e.out THEN reparsed(n, yamlScalar(e.out))
  ELSE Processed(n, NoErr)

\* processVars: the values of a mapping and the elements of a sequence in
\* order, up to the first error; a key is not expanded.
RECURSIVE processVars(_, _, _)
RECURSIVE processContent(_, _, _, _, _)
processedAt(n, r, keepsVariables, k, step, got) ==
  IF IsErr(got.err) \/ ~got.known THEN [got EXCEPT !.n = n]
  ELSE processContent([n EXCEPT !.Content[k] = got.n], r, keepsVariables, k + step, step)

processContent(n, r, keepsVariables, k, step) ==
  IF k > Len(n.Content) THEN Processed(n, NoErr)
  ELSE processedAt(n, r, keepsVariables, k, step,
                   processVars(n.Content[k], r, keepsVariables))

\* A processVars that visits the keys of a mapping as well as the values.
processVarsKeysToo(n, r, keepsVariables) ==
  IF n.Kind \in {"MappingNode", "SequenceNode"} THEN processContent(n, r, keepsVariables, 1, 1)
  ELSE IF n.Kind = "ScalarNode" /\ n.Tag = "!!str"
  THEN scalarExpanded(n, expandVar(n.Value, r, keepsVariables))
  ELSE Processed(n, NoErr)

processVars(n, r, keepsVariables) ==
  IF n.Kind = "MappingNode" THEN processContent(n, r, keepsVariables, 2, 2)
  ELSE IF n.Kind = "SequenceNode" THEN processContent(n, r, keepsVariables, 1, 1)
  ELSE IF n.Kind = "ScalarNode" /\ n.Tag = "!!str"
  THEN scalarExpanded(n, expandVar(n.Value, r, keepsVariables))
  ELSE Processed(n, NoErr)

----------------------------------------------------------------------------
(* Bounds                                                                  *)

\* The number of operations applied to one document.
MaxOps == 2

\* The longest sequence a document starts with.
MaxSeqLen == 3

\* The number of files the root file can include.
MaxIncludes == 2

\* The number of variables of the environment that hold patches.
MaxEnviron == 3

\* The longest list of patches of one file or of the load options.
MaxPatches == 2

----------------------------------------------------------------------------
(* Patches of the environment (load.go, envJSONPatches)                    *)

\* sort.Strings: the keys in ascending byte order.
RECURSIVE insertSorted(_, _)
insertSorted(keys, k) ==
  IF keys = <<>> THEN <<k>>
  ELSE IF StrLess(k, Head(keys)) THEN <<k>> \o keys
  ELSE <<Head(keys)>> \o insertSorted(Tail(keys), k)

RECURSIVE SortStrings(_)
SortStrings(keys) ==
  IF keys = <<>> THEN <<>> ELSE insertSorted(SortStrings(Tail(keys)), Head(keys))

\* "${" + k + "}" as the name of a source: a file name of the model is one
\* string, so the label of a variable is looked up by its name.
SourceLabel(k) ==
  CASE k = <<"P", "A", "T", "C", "H", "_", "0">> -> "${PATCH_0}"
    [] k = <<"P", "A", "T", "C", "H", "_", "1">> -> "${PATCH_1}"
    [] k = <<"P", "A", "T", "C", "H", "_", "2">> -> "${PATCH_2}"
    [] OTHER -> "${}"

\* The first loop of envJSONPatches over os.Environ(): the names of the
\* entries "name=value" that start with the prefix, in the order listed.
RECURSIVE harvestedKeys(_, _)
harvestedKeys(prefix, environ) ==
  IF environ = <<>> THEN <<>>
  ELSE (IF HasPrefix(Head(environ).name \o <<"=">>, prefix)
        THEN <<Head(environ).name>> ELSE <<>>)
       \o harvestedKeys(prefix, Tail(environ))

\* patches[k]: the value of the last entry of that name.
valueOfKey(environ, k) ==
  environ[CHOOSE i \in 1..Len(environ) :
            /\ environ[i].name = k
            /\ \A j \in (i + 1)..Len(environ) : environ[j].name # k].value

\* The second loop: each value parsed as JSON (the entries of the model hold
\* the parsed map, or malformed) and given its source.
RECURSIVE harvestedPatches(_, _)
harvestedPatches(environ, keys) ==
  IF keys = <<>> THEN [err |-> NoErr, patches |-> <<>>]
  ELSE IF valueOfKey(environ, Head(keys)).malformed
  THEN [err |-> ErrYAMLNew("", "failed to parse %s environment variable JSON patch"),
        patches |-> <<>>]
  ELSE [err |-> harvestedPatches(environ, Tail(keys)).err,
        patches |-> IF IsErr(harvestedPatches(environ, Tail(keys)).err) THEN <<>>
                    ELSE <<[valueOfKey(environ, Head(keys)).patch
                              EXCEPT !.source = SourceLabel(Head(keys))]>>
                         \o harvestedPatches(environ, Tail(keys)).patches]

\* envJSONPatches without sort.Strings: the patches in the order listed.
envJSONPatchesAsListed(prefix, environ) ==
  harvestedPatches(environ, harvestedKeys(prefix, environ))

\* envJSONPatches(prefix)
envJSONPatches(prefix, environ) ==
  harvestedPatches(environ, SortStrings(harvestedKeys(prefix, environ)))

----------------------------------------------------------------------------
(* Source maps and source comments (node.go, util.go)                      *)

\* One token of a pointer escaped: "~" to "~0", then "/" to "~1".
RECURSIVE escapeToken(_)
escapeToken(s) ==
  IF s = <<>> THEN <<>>
  ELSE (IF Head(s) = "~" THEN <<"~", "0">>
        ELSE IF Head(s) = "/" THEN <<"~", "1">>
        ELSE <<Head(s)>>) \o escapeToken(Tail(s))

\* The end of mustJSONPointer: ret[0:2] panics on a text of less than two
\* bytes; a leading "//" loses one slash.
PanicPath == <<"panic: slice bounds out of range">>

pointerJoined(ret) ==
  IF Len(ret) < 2 THEN PanicPath
  ELSE IF SubSeq(ret, 1, 2) = <<"/", "/">> THEN Tail(ret)
  ELSE ret

\* mustJSONPointer(base, s) for a string token: an empty token adds nothing,
\* a slash separates the token from a base that is not empty.
mustJSONPointerKey(base, s) ==
  IF s = <<>> THEN pointerJoined(base)
  ELSE IF base = <<>> THEN pointerJoined(escapeToken(s))
  ELSE pointerJoined(base \o <<"/">> \o escapeToken(s))

\* mustJSONPointer(base, i) for an integer token.
mustJSONPointerIndex(base, i) == pointerJoined(base \o <<"/">> \o Itoa(i))

\* SourceMap: the files and, for each path, the file and the line.
newSourceMap == [Sources |-> <<>>, Mappings |-> <<>>]

Mapping(path, file, line) == [Path |-> path, File |-> file, Line |-> line]

\* SourceMap.AddSource
AddSource(sm, source) ==
  IF \E i \in 1..Len(sm.Sources) : sm.Sources[i] = source THEN sm
  ELSE [sm EXCEPT !.Sources = Append(sm.Sources, source)]

\* SourceMap.FindMap: the index of the first mapping of the path, 0 for nil.
FindMapIndex(sm, path) ==
  IF \E i \in 1..Len(sm.Mappings) : sm.Mappings[i].Path = path
  THEN CHOOSE i \in 1..Len(sm.Mappings) :
         /\ sm.Mappings[i].Path = path
         /\ \A j \in 1..(i - 1) : sm.Mappings[j].Path # path
  ELSE 0

NilMapping == Mapping(<<>>, "", 0 - 1)

mappingAt(sm, i) == IF i = 0 THEN NilMapping ELSE sm.Mappings[i]

FindMap(sm, path) == mappingAt(sm, FindMapIndex(sm, path))

\* SourceMap.AddMapping: the mapping of a path that has one is overwritten.
addMappingAt(sm, i, path, file, line) ==
  IF i # 0 THEN [sm EXCEPT !.Mappings[i] = Mapping(path, file, line)]
  ELSE [sm EXCEPT !.Mappings = Append(sm.Mappings, Mapping(path, file, line))]

\* An AddMapping that appends the mapping whether the path has one or not.
AddMappingAppending(sm, path, file, line) ==
  [sm EXCEPT !.Mappings = Append(sm.Mappings, Mapping(path, file, line))]

AddMapping(sm, path, file, line) ==
  addMappingAt(sm, FindMapIndex(sm, path), path, file, line)

\* The node Load makes of a source map: the map marshalled to YAML and
\* parsed again, its nodes of no file, their lines those of the YAML text
\* (sources on line 1, one line for each source, mappings on the next line,
\* three lines for each mapping).
K_sources == <<"s", "o", "u", "r", "c", "e", "s">>
K_mappings == <<"m", "a", "p", "p", "i", "n", "g", "s">>
K_file == <<"f", "i", "l", "e">>
K_line == <<"l", "i", "n", "e">>

\* A file name as the characters of a scalar: the names of the model stand
\* for themselves.
FileText(file) == <<file>>

mappingNode(m, line) ==
  MapNode(<<Scalar(K_path, "", line), Scalar(m.Path, "", line),
            Scalar(K_file, "", line + 1), Scalar(FileText(m.File), "", line + 1),
            Scalar(K_line, "", line + 2),
            Node("ScalarNode", Itoa(m.Line), "!!int", "", line + 2, <<>>, 0)>>,
          "", line)

sourceMapNode(sm) ==
  MapNode(<<Scalar(K_sources, "", 1),
            SeqNode([i \in 1..Len(sm.Sources) |-> Scalar(FileText(sm.Sources[i]), "", 1 + i)],
                    "", 2),
            Scalar(K_mappings, "", 2 + Len(sm.Sources)),
            SeqNode([i \in 1..Len(sm.Mappings) |->
                       mappingNode(sm.Mappings[i], 3 * i + Len(sm.Sources))],
                    "", 3 + Len(sm.Sources))>>,
          "", 1)

\* toSourceMap: a key gives its path the key's position, a scalar gives its
\* path its own; a mapping and a sequence give their own path nothing.
RECURSIVE toSourceMap(_, _, _)
sourceMapPair(k, v, kp, sm) == toSourceMap(v, kp, AddMapping(sm, kp, k.File, k.Line))

RECURSIVE sourceMapPairs(_, _, _, _)
sourceMapPairs(n, p, sm, i) ==
  IF i + 1 > Len(n.Content) THEN sm
  ELSE sourceMapPairs(n, p,
                      sourceMapPair(n.Content[i], n.Content[i + 1],
                                    mustJSONPointerKey(p, n.Content[i].Value), sm),
                      i + 2)

RECURSIVE sourceMapElements(_, _, _, _)
sourceMapElements(n, p, sm, i) ==
  IF i > Len(n.Content) THEN sm
  ELSE sourceMapElements(n, p,
                         toSourceMap(n.Content[i], mustJSONPointerIndex(p, i - 1), sm),
                         i + 1)

toSourceMap(n, p, sm) ==
  IF n.Kind = "MappingNode" THEN sourceMapPairs(n, p, AddSource(sm, n.File), 1)
  ELSE IF n.Kind = "SequenceNode" THEN sourceMapElements(n, p, AddSource(sm, n.File), 1)
  ELSE AddMapping(AddSource(sm, n.File), p, n.File, n.Line)

\* node.ToSourceMap
ToSourceMap(n, p) == toSourceMap(n, p, AddMapping(newSourceMap, p, n.File, n.Line))

\* node.AddSourceComments: every scalar, keys included, has " file:line"
\* appended to its line comment (no node of the model has an anchor).
RECURSIVE AddSourceComments(_)
AddSourceComments(n) ==
  IF n.Kind \in {"MappingNode", "SequenceNode"}
  THEN [n EXCEPT !.Content = [i \in 1..Len(n.Content) |-> AddSourceComments(n.Content[i])]]
  ELSE [n EXCEPT !.LineComment = Append(n.LineComment, [File |-> n.File, Line |-> n.Line])]

----------------------------------------------------------------------------
(* State                                                                   *)

VARIABLES
  doc,          \* the document a sequence of tree operations is applied to
  last,         \* the last tree operation: its name, argument, the document before it, its error
  nops,         \* the number of tree operations applied
  cfg,          \* loadConfig: the options Load was called with
  stack,        \* the running loadNode calls, the innermost last
  allVariables, \* the directive variables accumulated by the loadNode calls
  pc,           \* where Load is: "loadNode", "processVars", "JSONPatches", "SourceMapKey", "Decode", "returned", "panicked"
  nd,           \* the tree loadNode returned to Load
  ret,          \* the error Load returned
  dest,         \* what was decoded into the destination
  jsonPatchIdx, \* the number of patches of the options applied
  trace,        \* what Load has done so far, in order
  declared,     \* the files whose variables were merged into the accumulator, in order
  steps,        \* the number of steps Load has taken
  input,        \* a scalar with the resolver and the mode it is expanded with
  expansion,    \* what expandVar and processVars made of the scalar
  sourceMap,    \* a source map its methods are called on
  called,       \* the last call on the source map: its name, arguments, the map before it, its result
  added,        \* the sources AddSource was called with, in order
  wrapped,      \* an error value: a wrappedError with its parent and cause, an error of another package, or nil
  made          \* the categories New was called on to make it, the innermost first

treeVars == <<doc, last, nops>>

loadVars ==
  <<cfg, stack, allVariables, pc, nd, ret, dest, jsonPatchIdx, trace, declared, steps>>

varVars == <<input, expansion>>

mapVars == <<sourceMap, called, added>>

errVars == <<wrapped, made>>

vars ==
  <<doc, last, nops, cfg, stack, allVariables, pc, nd, ret, dest, jsonPatchIdx, trace,
    declared, steps, input, expansion, sourceMap, called, added, wrapped, made>>

NoOp == [op |-> "none", arg |-> NilNode, pre |-> NilNode, err |-> NoErr]

\* loadConfig: the file, the patches, the resolver and the environment of
\* the process, and whether the expressions are kept; no source comment and
\* no source map unless asked for.
Config(name, patches, resolver, env, keepsVariables) ==
  [name |-> name, JSONPatches |-> patches, VarResolver |-> resolver, Env |-> env,
   KeepsVariables |-> keepsVariables, SourceMapComment |-> FALSE, SourceMapKey |-> <<>>,
   Environ |-> <<>>]

\* WithEnvJSONPatches(prefix) in a process whose environment lists environ:
\* the patches are harvested when the option is made.
WithEnvJSONPatches(c, prefix, environ) ==
  [c EXCEPT !.JSONPatches = envJSONPatches(prefix, environ).patches, !.Environ = environ]

\* WithSourceMapComment and WithSourceMapKey
WithSourceMap(c, comment, key) ==
  [c EXCEPT !.SourceMapComment = comment, !.SourceMapKey = key]

NoCfg == Config("", <<>>, NoResolver, <<>>, FALSE)

\* No tree operation is under way.
TreeIdle == doc = NilNode /\ last = NoOp /\ nops = 0

\* No Load is under way.
LoadIdle ==
  /\ cfg = NoCfg /\ stack = <<>> /\ allVariables = NilNode /\ pc = "idle"
  /\ nd = NilNode /\ ret = NoErr /\ dest = NilNode /\ jsonPatchIdx = 0 /\ trace = <<>>
  /\ declared = <<>> /\ steps = 0

NoInput == [v |-> <<>>, resolver |-> VarResolverOf(NoResolver, <<>>, NilNode),
            keepsVariables |-> FALSE]

NoExpansion ==
  [stage |-> "idle", first |-> Expanded(<<>>, NoErr, <<>>),
   again |-> Expanded(<<>>, NoErr, <<>>), node |-> NilNode, err |-> NoErr]

\* No scalar is being expanded.
VarIdle == input = NoInput /\ expansion = NoExpansion

\* No method of a source map has been called.
NoCall ==
  [op |-> "none", arg |-> NilMapping, pre |-> newSourceMap, found |-> NilMapping, n |-> 0]

MapIdle == sourceMap = newSourceMap /\ called = NoCall /\ added = <<>>

\* No error value is being made.
ErrIdle == wrapped = NilError /\ made = <<>>

----------------------------------------------------------------------------
(* Tree operations applied to a document (specification SpecTree)          *)

\* The document base.yml with a sequence of len elements under s:
\*   a: {b: v}     (lines 1, 2)
\*   c: v          (line 3)
\*   s: [e0, ...]  (line 4, elements from line 5)
BaseDoc(len) ==
  MapNode(<<Scalar(<<"a">>, "base.yml", 1),
            MapNode(<<Scalar(<<"b">>, "base.yml", 2), Scalar(<<"v">>, "base.yml", 2)>>,
                    "base.yml", 2),
            Scalar(<<"c">>, "base.yml", 3), Scalar(<<"v">>, "base.yml", 3),
            Scalar(<<"s">>, "base.yml", 4),
            SeqNode([i \in 1..len |-> Scalar(<<"e">> \o Itoa(i - 1), "base.yml", 4 + i)],
                    "base.yml", 5)>>,
          "base.yml", 1)

\* The pointers patches are tried at: existing and absent keys, pointers
\* whose parent is missing, is a scalar or is a sequence, and every index
\* from 0 to past the end of the longest sequence.
KeyPaths ==
  {PathOf(t) : t \in {<<<<"c">>>>, <<<<"z">>>>, <<<<"a">>, <<"b">>>>,
                      <<<<"z">>, <<"y">>>>, <<<<"z">>, <<"0">>>>,
                      <<<<"z">>, <<"y">>, <<"x">>>>, <<<<"z">>, <<"-">>, <<"x">>>>,
                      <<<<"s">>, <<"-">>>>, <<<<"s">>, <<"z">>>>,
                      <<<<"c">>, <<"z">>>>, <<<<"s">>, <<"0">>, <<"z">>>>,
                      <<<<"a">>, <<"0">>>>}}

IndexPaths == {PathOf(<<<<"s">>, Itoa(i)>>) : i \in 0..(MaxSeqLen + 1)}

TreePaths == KeyPaths \cup IndexPaths

\* Where a patch is declared: in a file's directive block (the patch on
\* line 4, its value on line 6) or supplied from outside (every position
\* cleared to line 1, the file the patch's source label).
TreePatches ==
  {PatchNode(op, path, Scalar(<<"x">>, "test.yml", 6), "test.yml", 4) :
     op \in {OpAdd, OpReplace}, path \in TreePaths}
  \cup {jsonPatchNode([op |-> op, path |-> path, value |-> <<"x">>,
                       source |-> "${PATCH_0}"]) :
          op \in {OpAdd, OpReplace}, path \in {PathOf(<<<<"c">>>>), PathOf(<<<<"s">>, <<"0">>>>)}}
  \cup {PatchNode(OpRemove, path, NilNode, "test.yml", 4) : path \in TreePaths}

\* The overlays a document is merged with (child.yml): per key of the
\* document the key is absent, has a value of the same kind or has a value
\* of another kind; b is a key the document lacks.
OverlayA ==
  {<<>>,
   <<Scalar(<<"a">>, "child.yml", 1),
     MapNode(<<Scalar(<<"b">>, "child.yml", 2), Scalar(<<"w">>, "child.yml", 2),
               Scalar(<<"a", "a">>, "child.yml", 3), Scalar(<<"w">>, "child.yml", 3)>>,
             "child.yml", 2)>>,
   <<Scalar(<<"a">>, "child.yml", 1), Scalar(<<"w">>, "child.yml", 1)>>}

OverlayS ==
  {<<>>,
   <<Scalar(<<"s">>, "child.yml", 4),
     SeqNode(<<Scalar(<<"o", "0">>, "child.yml", 5), Scalar(<<"o", "1">>, "child.yml", 6)>>,
             "child.yml", 5)>>,
   <<Scalar(<<"s">>, "child.yml", 4), Scalar(<<"w">>, "child.yml", 4)>>}

OverlayCB ==
  <<Scalar(<<"c">>, "child.yml", 7), Scalar(<<"w">>, "child.yml", 7),
    Scalar(<<"b">>, "child.yml", 8),
    SeqNode(<<Scalar(<<"o", "2">>, "child.yml", 9)>>, "child.yml", 9)>>

Overlays ==
  {MapNode(s \o OverlayCB \o a, "child.yml", 1) : a \in OverlayA, s \in OverlayS}

\* The same document with its keys in the order s, a, c.
KeysReordered(d) ==
  [d EXCEPT !.Content = SubSeq(d.Content, 5, 6) \o SubSeq(d.Content, 1, 4)]

\* The pairs put into the document: keys it has and keys it lacks, which
\* sort before, between and after its keys; a scalar and a mapping for
\* value.
PutKeys == {<<"a">>, <<"c">>, <<"s">>, <<"0">>, <<"a", "a">>, <<"b">>, <<"z">>}

PutValues ==
  {Scalar(<<"p">>, "put.yml", 1),
   MapNode(<<Scalar(<<"y">>, "put.yml", 2), Scalar(<<"p">>, "put.yml", 2)>>, "put.yml", 2)}

\* The keys deleted from the document.
DeleteKeys == {<<"a">>, <<"c">>, <<"s">>, <<"z">>}

InitTree ==
  /\ doc \in {BaseDoc(len) : len \in 0..MaxSeqLen} \cup {KeysReordered(BaseDoc(1))}
  /\ last = NoOp
  /\ nops = 0
  /\ LoadIdle
  /\ VarIdle
  /\ MapIdle
  /\ ErrIdle

\* What a patch leaves: the tree and the record of the operation.
treePatched(p, r) ==
  /\ doc' = r.n
  /\ last' = [op |-> "patch", arg |-> p, pre |-> doc, err |-> r.err]

\* A patch is applied to the document.  An error ends the list of patches
\* (processPatchNodes), a panic ends the program.
TreePatch(p) ==
  /\ doc # NilNode
  /\ nops < MaxOps
  /\ ~IsErr(last.err)
  /\ treePatched(p, processPatchNode(doc, p))
  /\ nops' = nops + 1
  /\ UNCHANGED <<loadVars, varVars, mapVars, errVars>>

\* The document is merged with an overlay.
TreeMerge(o) ==
  /\ doc # NilNode
  /\ nops < MaxOps
  /\ ~IsErr(last.err)
  /\ doc' = Merge(doc, o)
  /\ last' = [op |-> "merge", arg |-> o, pre |-> doc, err |-> NoErr]
  /\ nops' = nops + 1
  /\ UNCHANGED <<loadVars, varVars, mapVars, errVars>>

\* node.Put's result: the value the key had, nil for a new key and for a
\* node that is no mapping.
PutReturned(n, key) == IF n.Kind # "MappingNode" THEN NilNode ELSE Get(n, key.Value)

\* A pair is put into the document.
TreePut(key, value) ==
  /\ doc # NilNode
  /\ nops < MaxOps
  /\ ~IsErr(last.err)
  /\ doc' = Put(doc, key, value)
  /\ last' = [op |-> "put",
              arg |-> [key |-> key, value |-> value, returned |-> PutReturned(doc, key)],
              pre |-> doc, err |-> NoErr]
  /\ nops' = nops + 1
  /\ UNCHANGED <<loadVars, varVars, mapVars, errVars>>

\* A key is deleted from the document.
TreeDelete(key) ==
  /\ doc # NilNode
  /\ nops < MaxOps
  /\ ~IsErr(last.err)
  /\ doc' = Delete(doc, key).n
  /\ last' = [op |-> "delete",
              arg |-> [key |-> key, returned |-> Delete(doc, key).removed],
              pre |-> doc, err |-> NoErr]
  /\ nops' = nops + 1
  /\ UNCHANGED <<loadVars, varVars, mapVars, errVars>>

NextTree ==
  \/ \E p \in TreePatches : TreePatch(p)
  \/ \E o \in Overlays : TreeMerge(o)
  \/ \E k \in PutKeys, v \in PutValues : TreePut(Scalar(k, "put.yml", v.Line), v)
  \/ \E k \in DeleteKeys : TreeDelete(k)

SpecTree == InitTree /\ [][NextTree]_vars

----------------------------------------------------------------------------
(* Properties of the tree operations                                       *)

\* The node a pointer resolves to in n, NilNode when it resolves to none.
lookupOf(n, r) == IF IsErr(r.err) THEN NilNode ELSE NodeAt(n, r.loc)

Lookup(n, path) == lookupOf(n, FindNodeByJSONPointer(n, path))

\* The place of the node a pointer resolves to.
LocOf(n, path) == FindNodeByJSONPointer(n, path).loc

\* The fields of a patch object.
PatchOp(p) == Get(p, K_op).Value

PatchPath(p) == Get(p, K_path).Value

PatchValue(p) == Get(p, K_value)

\* The line of the key of a pair of a mapping.
KeyLine(n, key) == n.Content[ValueIndex(n, key) - 1].Line

\* The pointer without its last token, and that token.
ParentPath(path) == PointerString(Pop(parseJSONPointer(path).jp).parent)

ChildToken(path) == Pop(parseJSONPointer(path).jp).child

\* The keys of a mapping.
Keys(n) == {n.Content[2 * i - 1].Value : i \in 1..(Len(n.Content) \div 2)}

\* The last tree operation was a patch with the given op.
LastPatch(op) == last.op = "patch" /\ PatchOp(last.arg) = op

\* The reference merge: result is the merge of base and overlay.
RECURSIVE MergeOK(_, _, _)
MergeOK(base, overlay, result) ==
  IF base.Kind # overlay.Kind \/ base.Kind \notin {"MappingNode", "SequenceNode"}
  THEN result = overlay
  ELSE IF base.Kind = "SequenceNode"
  THEN /\ result.Kind = "SequenceNode"
       /\ result.Content = base.Content \o overlay.Content
       /\ result.File = base.File /\ result.Line = base.Line
  ELSE /\ result.Kind = "MappingNode"
       /\ Keys(result) = Keys(base) \cup Keys(overlay)
       /\ Len(result.Content) = 2 * Cardinality(Keys(result))
       /\ \A k \in Keys(result) :
            IF k \notin Keys(overlay) THEN Get(result, k) = Get(base, k)
            ELSE IF k \notin Keys(base) THEN Get(result, k) = Get(overlay, k)
            ELSE MergeOK(Get(base, k), Get(overlay, k), Get(result, k))

\* C2: merge(base, overlay) is the reference merge: of two mappings every
\* key present in only one of them is kept and a key present in both gets
\* the merge of the two values, of two sequences the result is base's
\* elements followed by overlay's, and when the kinds differ or both are
\* scalars the result is the overlay node itself, with its file and line.
C2_MergeIsReference == last.op = "merge" => MergeOK(last.pre, last.arg, doc)

\* A merge in which a key of both holds mappings, another holds sequences,
\* a third holds scalars and a fourth is only in the overlay.
C2_Witness ==
  /\ last.op = "merge"
  /\ Get(last.arg, <<"a">>).Kind = "MappingNode"
  /\ Get(last.pre, <<"a">>).Kind = "MappingNode"
  /\ Get(last.arg, <<"s">>).Kind = "SequenceNode"
  /\ Len(Get(last.pre, <<"s">>).Content) = 2
  /\ Len(Get(doc, <<"s">>).Content) = 4
  /\ Get(doc, <<"c">>).File = "child.yml"
  /\ Get(last.pre, <<"b">>) = NilNode
  /\ Get(doc, <<"b">>) # NilNode

\* seq with x put before its element at 0-based index i (after the last
\* when i is Len(seq)).
InsertAt(seq, i, x) == SubSeq(seq, 1, i) \o <<x>> \o SubSeq(seq, i + 1, Len(seq))

\* seq without its element at 0-based index i.
RemoveAt(seq, i) == SubSeq(seq, 1, i) \o SubSeq(seq, i + 2, Len(seq))

\* Some proper prefix of the pointer resolves to no node of n.
RECURSIVE prefixMissing(_, _, _)
prefixMissing(n, jp, k) ==
  IF k >= Len(jp) THEN FALSE
  ELSE Lookup(n, PointerString(SubSeq(jp, 1, k))) = NilNode \/ prefixMissing(n, jp, k + 1)

PrefixMissing(n, path) == prefixMissing(n, parseJSONPointer(path).jp, 1)

\* The pointers of an add that has containers to create: under the absent
\* key z a mapping with key y, a mapping within a mapping, a sequence.
CreatingPaths ==
  {PathOf(t) : t \in {<<<<"z">>, <<"y">>>>, <<<<"z">>, <<"y">>, <<"x">>>>,
                      <<<<"z">>, <<"0">>>>}}

addCreated(pre, post, err, path, value) ==
  /\ ~IsErr(err)
  /\ Lookup(post, path) = value
  /\ Get(post, <<"z">>).Kind =
       (IF path = PathOf(<<<<"z">>, <<"0">>>>) THEN "SequenceNode" ELSE "MappingNode")
  /\ \A k \in Keys(pre) : Get(post, k) = Get(pre, k)

\* C4, as the specification states it: an add below a pointer that does
\* not resolve succeeds, creates the missing containers (a sequence before
\* an index token, else a mapping), sets the value and changes nothing else.
C4_AsClaimed ==
  (/\ LastPatch(OpAdd)
   /\ PatchPath(last.arg) \in CreatingPaths
   /\ PrefixMissing(last.pre, PatchPath(last.arg)))
  => addCreated(last.pre, doc, last.err, PatchPath(last.arg), PatchValue(last.arg))

addedToSequence(parent, child, np, err, value) ==
  /\ ~IsErr(err)
  /\ np.Kind = "SequenceNode"
  /\ np.Content = InsertAt(parent.Content,
                           IF child.Index < 0 THEN Len(parent.Content) ELSE child.Index,
                           value)

sequenceAdd(parent, child) ==
  /\ parent.Kind = "SequenceNode"
  /\ child.IsIndex
  /\ child.Index <= Len(parent.Content)

\* C5, as the specification states it: an add whose parent is a sequence of
\* length L and whose last token is "-" or L appends the value, one whose
\* last token is an index below L inserts the value before that element,
\* and neither fails.
C5_AsClaimed ==
  (/\ LastPatch(OpAdd)
   /\ sequenceAdd(Lookup(last.pre, ParentPath(PatchPath(last.arg))),
                  ChildToken(PatchPath(last.arg))))
  => addedToSequence(Lookup(last.pre, ParentPath(PatchPath(last.arg))),
                     ChildToken(PatchPath(last.arg)),
                     Lookup(doc, ParentPath(PatchPath(last.arg))),
                     last.err, PatchValue(last.arg))

outOfRange(parent, child) ==
  parent.Kind = "SequenceNode" /\ child.IsIndex /\ child.Index > Len(parent.Content)

addErrorNames(err, parentPath, parent, child) ==
  /\ outOfRange(parent, child) =>
       /\ err.cat = "directive error"
       /\ err.inner = "can not perform an add value before index %d(path: %s, size: %d)"
       /\ err.index = child.Index
       /\ err.size = Len(parent.Content)
  /\ parent.Kind = "ScalarNode" =>
       /\ err.cat = "directive error"
       /\ err.inner = "can not perform an add '%s' key operation on (an) %s node(path: %s)"
       /\ err.path = parentPath
       /\ err.kind = "scalar"

\* C6: an add that fails leaves the tree as it was before the patch; with
\* an index above the length of the sequence the error names the index and
\* the size, with a scalar parent it names the path and the kind.
C6_FailedAddLeavesTree ==
  (LastPatch(OpAdd) /\ IsErr(last.err))
  => /\ doc = last.pre
     /\ addErrorNames(last.err, ParentPath(PatchPath(last.arg)),
                      Lookup(last.pre, ParentPath(PatchPath(last.arg))),
                      ChildToken(PatchPath(last.arg)))

\* An add at an index above the length of a sequence of three has failed.
C6_Witness ==
  /\ LastPatch(OpAdd)
  /\ PatchPath(last.arg) = PathOf(<<<<"s">>, Itoa(MaxSeqLen + 1)>>)
  /\ Len(Get(last.pre, <<"s">>).Content) = 3
  /\ last.err.index = MaxSeqLen + 1
  /\ last.err.size = 3

\* post is pre with the node at loc changed and nothing else.
onlyChangedAt(pre, post, loc) == post = SetAt(pre, loc, NodeAt(post, loc))

removedIndex(pre, post, err, loc, parent, child) ==
  IF child.Index < Len(parent.Content)
  THEN /\ ~IsErr(err)
       /\ onlyChangedAt(pre, post, loc)
       /\ NodeAt(post, loc).Content = RemoveAt(parent.Content, child.Index)
  ELSE /\ err.cat = "directive error"
       /\ err.inner = "can not remove a value at index %d(path: %s, size: %d)"
       /\ err.index = child.Index
       /\ err.size = Len(parent.Content)
       /\ post = pre

removedKey(pre, post, err, loc, parent, key, np) ==
  IF key \in Keys(parent)
  THEN /\ ~IsErr(err)
       /\ onlyChangedAt(pre, post, loc)
       /\ Keys(np) = Keys(parent) \ {key}
       /\ Len(np.Content) = Len(parent.Content) - 2
       /\ \A k \in Keys(np) : Get(np, k) = Get(parent, k)
  ELSE /\ err.cat = "directive error"
       /\ err.inner = "can not remove a value %s(value does not exist)"
       /\ post = pre

removed(pre, post, err, loc, parent, child) ==
  IF parent = NilNode THEN IsErr(err) /\ post = pre
  ELSE IF parent.Kind = "SequenceNode" /\ child.IsIndex /\ child.Index >= 0
  THEN removedIndex(pre, post, err, loc, parent, child)
  ELSE IF parent.Kind = "MappingNode"
  THEN removedKey(pre, post, err, loc, parent, child.String, NodeAt(post, loc))
  ELSE /\ err.cat = "directive error"
       /\ err.inner = "can not perform a remove operation on (an) %s node(path: %s)"
       /\ err.kind = KindString(parent)
       /\ post = pre

\* C7: a remove whose parent is a sequence and whose last token is a
\* concrete index splices out exactly that element when the index is below
\* the length and fails naming index and size otherwise; with a mapping as
\* parent it deletes the key when present and fails with "value does not
\* exist" when absent; with any other parent it fails as unsupported; a
\* remove that fails leaves the tree unchanged.
C7_Remove ==
  LastPatch(OpRemove)
  => removed(last.pre, doc, last.err, LocOf(last.pre, ParentPath(PatchPath(last.arg))),
             Lookup(last.pre, ParentPath(PatchPath(last.arg))),
             ChildToken(PatchPath(last.arg)))

\* The middle element of a sequence of three has been removed.
C7_Witness ==
  /\ LastPatch(OpRemove)
  /\ PatchPath(last.arg) = PathOf(<<<<"s">>, <<"1">>>>)
  /\ Len(Get(last.pre, <<"s">>).Content) = 3
  /\ Len(Get(doc, <<"s">>).Content) = 2
  /\ ~IsErr(last.err)

\* The entries of a container other than the one named by the token are
\* the same in np as in parent.
othersKept(parent, np, child) ==
  /\ Len(np.Content) = Len(parent.Content)
  /\ IF parent.Kind = "MappingNode"
     THEN /\ Keys(np) = Keys(parent)
          /\ \A k \in Keys(parent) \ {child.String} : Get(np, k) = Get(parent, k)
     ELSE \A j \in 1..Len(parent.Content) :
            j # child.Index + 1 => np.Content[j] = parent.Content[j]

replaced(pre, post, err, path, patch, loc, parent, child, line) ==
  /\ ~IsErr(err)
  /\ Lookup(post, path) = PatchValue(patch)
  /\ Lookup(post, path).File = patch.File
  /\ Lookup(post, path).Line = line
  /\ onlyChangedAt(pre, post, loc)
  /\ othersKept(parent, NodeAt(post, loc), child)

\* C8: a replace at a pointer that names an existing mapping key or an
\* in-range sequence index leaves a tree in which the pointer resolves to
\* the new value, whose provenance is the patch's file and the line of the
\* patch's value; the container has as many entries as before and its other
\* entries are the nodes they were.
C8_ReplaceExisting ==
  (LastPatch(OpReplace) /\ Lookup(last.pre, PatchPath(last.arg)) # NilNode)
  => replaced(last.pre, doc, last.err, PatchPath(last.arg), last.arg,
              LocOf(last.pre, ParentPath(PatchPath(last.arg))),
              Lookup(last.pre, ParentPath(PatchPath(last.arg))),
              ChildToken(PatchPath(last.arg)),
              KeyLine(last.arg, K_value))

\* C8, as the specification states it: the line of the new value is the
\* line at which the patch is declared.
C8_AsClaimed ==
  (LastPatch(OpReplace) /\ Lookup(last.pre, PatchPath(last.arg)) # NilNode)
  => replaced(last.pre, doc, last.err, PatchPath(last.arg), last.arg,
              LocOf(last.pre, ParentPath(PatchPath(last.arg))),
              Lookup(last.pre, ParentPath(PatchPath(last.arg))),
              ChildToken(PatchPath(last.arg)),
              last.arg.Line)

\* The last element of a sequence has been replaced by a patch declared in
\* a file, the patch on line 4 and its value on line 6.
C8_Witness ==
  /\ LastPatch(OpReplace)
  /\ PatchPath(last.arg) = PathOf(<<<<"s">>, <<"1">>>>)
  /\ Len(Get(last.pre, <<"s">>).Content) = 2
  /\ last.arg.Line = 4
  /\ Get(doc, <<"s">>).Content[2] = PatchValue(last.arg)
  /\ Get(doc, <<"s">>).Content[2].Line = 6

\* The pointers of a replace that resolve to nothing: a key absent from an
\* existing mapping, and a key below an absent mapping.
AbsentPaths ==
  {PathOf(t) : t \in {<<<<"z">>>>, <<<<"z">>, <<"y">>>>, <<<<"z">>, <<"y">>, <<"x">>>>}}

\* C9, as the specification states it: a replace at a pointer that does not
\* resolve, its last key absent or a container on the way missing, ends
\* without error, and the pointer then resolves to the new value.
C9_AsClaimed ==
  (/\ LastPatch(OpReplace)
   /\ PatchPath(last.arg) \in AbsentPaths
   /\ Lookup(last.pre, PatchPath(last.arg)) = NilNode)
  => /\ ~IsErr(last.err)
     /\ Lookup(doc, PatchPath(last.arg)) = PatchValue(last.arg)

----------------------------------------------------------------------------
(* The files and options of a Load (specification Spec)                    *)

\* loadConfig.DirectiveKey, and the keys of a directive block.
DirectiveKey == <<"_", "d", "i", "r", "e", "c", "t", "i", "v", "e", "s">>
K_include == <<"i", "n", "c", "l", "u", "d", "e">>
K_patches == <<"p", "a", "t", "c", "h", "e", "s">>
K_variables == <<"v", "a", "r", "i", "a", "b", "l", "e", "s">>

\* The file Load is called with, the files it can include and the file an
\* included file can include.  A scalar that names a file (an entry of an
\* include list, the source of a patch) holds the name as File holds it.
RootFile == "test.yml"

IncFile(i) == "inc" \o ToString(i) \o ".yml"

DeepFile == "deep.yml"

\* A name the file system does not have.
MissingFile == "gone.yml"

\* The files of the loads that ask for a source map.
FileA == "a.yml"

FileB == "b.yml"

FileC == "c.yml"

\* The key the source map is put under.
K_sourcemap == <<"_", "s", "m">>

\* The file of a Load whose files declare and use a variable, the files it
\* can include and the file the first of them can include.
VarRootFile == "vars.yml"

\* The file of the README's example, whose directive block declares its
\* variable under the key vars.
BasicsFile == "basics.yml"

K_vars == <<"v", "a", "r", "s">>

ChildFile(i) == "child" \o ToString(i) \o ".yml"

GrandChildFile == "grand-child.yml"

\* A file that includes itself, and two files that include each other.
SelfFile == "self.yml"

PingFile == "ping.yml"

PongFile == "pong.yml"

\* fsGlob: the files a pattern matches, in the order the file system lists
\* them.
fsGlob(pattern) ==
  IF pattern = "inc*.yml" THEN [i \in 1..MaxIncludes |-> IncFile(i)]
  ELSE IF pattern = "child*.yml" THEN [i \in 1..MaxIncludes |-> ChildFile(i)]
  ELSE IF pattern \in {DeepFile, GrandChildFile, FileB, FileC, SelfFile, PingFile, PongFile}
          \/ pattern \in {IncFile(i) : i \in 1..MaxIncludes}
          \/ pattern \in {ChildFile(i) : i \in 1..MaxIncludes}
  THEN <<pattern>>
  ELSE <<>>

\* The include lists of the root file: the included files in any order
\* without repetition, or one pattern that matches them all.
IncludeLists ==
  {<<"inc*.yml">>}
  \cup {[j \in 1..Len(s) |-> IncFile(s[j])] :
          s \in {t \in UNION {[1..n -> 1..MaxIncludes] : n \in 1..MaxIncludes} :
                   \A a, b \in DOMAIN t : a # b => t[a] # t[b]}}

\* The include lists of vars.yml: none, one pattern for every file it can
\* include, or the files in any order without repetition.
ChildLists ==
  {<<>>, <<"child*.yml">>}
  \cup {[j \in 1..Len(s) |-> ChildFile(s[j])] :
          s \in {t \in UNION {[1..n -> 1..MaxIncludes] : n \in 1..MaxIncludes} :
                   \A a, b \in DOMAIN t : a # b => t[a] # t[b]}}

\* The patches files declare, by what they do to a document with the
\* sequence s and the scalar c; a patch of a file is written on three lines.
MakePatch(kind, file, line) ==
  CASE kind = "append"     -> PatchNode(OpAdd, PathOf(<<<<"s">>, <<"-">>>>),
                                        Scalar(<<"x">>, file, line + 2), file, line)
    [] kind = "insert0"    -> PatchNode(OpAdd, PathOf(<<<<"s">>, <<"0">>>>),
                                        Scalar(<<"y">>, file, line + 2), file, line)
    [] kind = "insert1"    -> PatchNode(OpAdd, PathOf(<<<<"s">>, <<"1">>>>),
                                        Scalar(<<"z">>, file, line + 2), file, line)
    [] kind = "replaceC"   -> PatchNode(OpReplace, PathOf(<<<<"c">>>>),
                                        Scalar(<<"r">>, file, line + 2), file, line)
    [] kind = "removeC"    -> PatchNode(OpRemove, PathOf(<<<<"c">>>>), NilNode, file, line)
    [] kind = "notMapping" -> Scalar(<<"a", "d", "d">>, file, line)
    [] kind = "noOp"       -> MapNode(<<Scalar(K_path, file, line),
                                        Scalar(PathOf(<<<<"c">>>>), file, line)>>, file, line)
    [] kind = "badPointer" -> PatchNode(OpAdd, <<"c">>,
                                        Scalar(<<"x">>, file, line + 2), file, line)
    [] kind = "badOp"      -> PatchNode(<<"m", "o", "v", "e">>, PathOf(<<<<"c">>>>),
                                        NilNode, file, line)
    [] kind = "addBelowScalar" -> PatchNode(OpAdd, PathOf(<<<<"c">>, <<"z">>>>),
                                        Scalar(<<"x">>, file, line + 2), file, line)
    [] kind = "removeAbsent" -> PatchNode(OpRemove, PathOf(<<<<"z">>>>), NilNode, file, line)

PatchKinds ==
  {"append", "insert0", "insert1", "replaceC", "removeC", "notMapping", "noOp",
   "badPointer", "badOp", "addBelowScalar", "removeAbsent"}

\* The lists of at most MaxPatches kinds.
KindLists(kinds) == UNION {[1..n -> kinds] : n \in 0..MaxPatches}

\* The patches of a file: the first on line 10, each on three lines.
PatchList(kinds, file) == [j \in 1..Len(kinds) |-> MakePatch(kinds[j], file, 7 + 3 * j)]

\* The content of a file: c (when it has one) is a scalar and s a sequence
\* of n elements, both named after the file by tag.
Data(file, tag, hasC, n) ==
  (IF hasC THEN <<Scalar(<<"c">>, file, 20), Scalar(tag, file, 20)>> ELSE <<>>)
  \o <<Scalar(<<"s">>, file, 21),
       SeqNode([i \in 1..n |-> Scalar(tag \o Itoa(i - 1), file, 21 + i)], file, 22)>>

\* The directive block of a file: only the keys the file declares.
Directives(file, incs, patches, variables) ==
  (IF incs = <<>> THEN <<>>
   ELSE <<Scalar(K_include, file, 2),
          SeqNode([i \in 1..Len(incs) |-> Node("ScalarNode", incs[i], "!!str", file, 2 + i,
                                               <<>>, 0)], file, 3)>>)
  \o (IF patches = <<>> THEN <<>>
      ELSE <<Scalar(K_patches, file, 9), SeqNode(patches, file, 10)>>)
  \o (IF variables = NilNode THEN <<>>
      ELSE <<Scalar(K_variables, file, 18), variables>>)

\* A file as yaml.Unmarshal and mustRootNode give it: the directive block,
\* when the file has one, and the content.
docOf(file, block, data) ==
  MapNode((IF block = <<>> THEN <<>>
           ELSE <<Scalar(DirectiveKey, file, 1), MapNode(block, file, 2)>>) \o data,
          file, 1)

FileDoc(file, incs, patches, variables, data) ==
  docOf(file, Directives(file, incs, patches, variables), data)

\* The variables block of a file.
Variables(file) ==
  MapNode(<<Scalar(<<"v">>, file, 19), Scalar(<<"1">>, file, 19)>>, file, 19)

\* A variables block that declares v with a value, and the content of a
\* file that refers to v: c is the scalar ref and s holds one element,
\* ${v:0}.
K_v == <<"v">>

VariablesOf(file, value) ==
  MapNode(<<Scalar(K_v, file, 19), Scalar(value, file, 19)>>, file, 19)

RefWithDefault == <<"$", "{", "v", ":", "0", "}">>

RefBare == <<"$", "{", "v", "}">>

VarData(file, ref) ==
  <<Scalar(<<"c">>, file, 20), Scalar(ref, file, 20),
    Scalar(<<"s">>, file, 21),
    SeqNode(<<Scalar(RefWithDefault, file, 22)>>, file, 22)>>

\* The value a file gives v when it declares it.
ValueIn(file) ==
  IF file = VarRootFile THEN <<"r">>
  ELSE IF file = GrandChildFile THEN <<"g">>
  ELSE <<"c">> \o Itoa(CHOOSE i \in 1..MaxIncludes : ChildFile(i) = file)

VarBlocks(file) == {NilNode, VariablesOf(file, ValueIn(file))}

\* The resolvers given with the options and the environments of the
\* process: v is set or not.
Resolvers == {NoResolver, CustomResolver(K_v :> Resolved(<<"u">>, NoErr))}

Environments == {<<>>, K_v :> <<"e">>}

\* The patches given with WithJSONPatches: maps of op, path, value and
\* source ("" when the patch has none).
ExtPatches ==
  {[op |-> OpAdd, path |-> PathOf(<<<<"s">>, <<"-">>>>), value |-> <<"e">>,
    source |-> "${PATCH_0}"],
   [op |-> OpAdd, path |-> PathOf(<<<<"n">>>>), value |-> <<"e">>, source |-> ""],
   [op |-> OpRemove, path |-> PathOf(<<<<"z">>>>), value |-> <<>>, source |-> ""],
   [op |-> OpAdd, path |-> PathOf(<<<<"s">>, <<"1">>>>), value |-> <<"e">>,
    source |-> "${PATCH_1}"]}

ExtLists == UNION {[1..n -> ExtPatches] : n \in 0..MaxPatches}

\* The variables of the environment that hold patches, as os.Environ lists
\* them: PATCH_0 and PATCH_1 add the key n, PATCH_2 appends to s, OTHER
\* does not have the prefix.
EnvPatch(name, path, value) ==
  [name |-> name,
   value |-> [malformed |-> FALSE,
              patch |-> [op |-> OpAdd, path |-> path, value |-> value, source |-> ""]]]

PatchPrefix == <<"P", "A", "T", "C", "H">>

EnvPatches ==
  {EnvPatch(PatchPrefix \o <<"_", "0">>, PathOf(<<<<"n">>>>), <<"p", "0">>),
   EnvPatch(PatchPrefix \o <<"_", "1">>, PathOf(<<<<"n">>>>), <<"p", "1">>),
   EnvPatch(PatchPrefix \o <<"_", "2">>, PathOf(<<<<"s">>, <<"-">>>>), <<"p", "2">>),
   EnvPatch(<<"O", "T", "H", "E", "R">>, PathOf(<<<<"n">>>>), <<"o">>)}

\* The listings of up to MaxEnviron of them, in every order, with at least
\* one that has the prefix.
Environs ==
  {e \in UNION {[1..n -> EnvPatches] : n \in 1..MaxEnviron} :
     /\ \A i, j \in DOMAIN e : i # j => e[i].name # e[j].name
     /\ \E i \in DOMAIN e : HasPrefix(e[i].name, PatchPrefix)}

\* A patch of the options whose value refers to v.
ExtRefPatch ==
  [op |-> OpAdd, path |-> PathOf(<<<<"n">>>>), value |-> RefWithDefault, source |-> ""]

\* What the file system holds under a name: NilNode for a name it lacks.
\* The root file has includes and at most one patch, or no include and any
\* list of patches, or (when the options bring patches) no include and at
\* most one patch; it can also be no mapping, have a scalar for directive
\* block, or include a file that does not exist.
RootData(hasC) == Data(RootFile, <<"t">>, hasC, 1)

RootWithIncludes ==
  {FileDoc(RootFile, incs, PatchList(pl, RootFile), NilNode, RootData(hasC)) :
     incs \in IncludeLists, pl \in {<<>>, <<"append">>}, hasC \in BOOLEAN}

RootWithPatches ==
  {FileDoc(RootFile, <<>>, PatchList(pl, RootFile), Variables(RootFile), RootData(TRUE)) :
     pl \in KindLists(PatchKinds)}

RootUnderOptions ==
  {FileDoc(RootFile, <<>>, PatchList(pl, RootFile), NilNode, RootData(TRUE)) :
     pl \in {<<>>, <<"append">>, <<"removeAbsent">>}}

\* A root file that refers to v, with or without a default, declares it or
\* not, and includes files or not.
RootWithVars ==
  {FileDoc(VarRootFile, incs, <<>>, variables, VarData(VarRootFile, ref)) :
     incs \in ChildLists, variables \in VarBlocks(VarRootFile),
     ref \in {RefWithDefault, RefBare}}

\* The file with a vars block that declares v and a content that refers to
\* v, with or without a default.
RootWithVarsKey ==
  {docOf(BasicsFile, <<Scalar(K_vars, BasicsFile, 18), VariablesOf(BasicsFile, <<"r">>)>>,
         VarData(BasicsFile, ref)) :
     ref \in {RefWithDefault, RefBare}}

RootMalformed ==
  {SeqNode(<<>>, RootFile, 1),
   MapNode(<<Scalar(DirectiveKey, RootFile, 1), Scalar(<<"x">>, RootFile, 1)>>
           \o RootData(TRUE), RootFile, 1),
   FileDoc(RootFile, <<MissingFile>>, <<>>, NilNode, RootData(TRUE))}

\* An included file has two elements under s; the first can include the
\* deep file and can have a patch that fails; each can have an include
\* pattern that matches no file.
IncContents(i) ==
  {FileDoc(IncFile(i), incs, PatchList(pl, IncFile(i)), NilNode,
           Data(IncFile(i), Itoa(i), hasC, 2)) :
     incs \in (IF i = 1 THEN {<<>>, <<DeepFile>>} ELSE {<<>>}),
     pl \in (IF i = 1 THEN {<<>>, <<"insert1">>, <<"removeAbsent">>}
                      ELSE {<<>>, <<"insert1">>}),
     hasC \in BOOLEAN}
  \cup {FileDoc(IncFile(i), IF i = 1 THEN <<DeepFile, MissingFile>> ELSE <<MissingFile>>,
                <<>>, NilNode, Data(IncFile(i), Itoa(i), TRUE, 2))}

DeepContents ==
  {FileDoc(DeepFile, <<>>, PatchList(<<"replaceC">>, DeepFile), Variables(DeepFile),
           Data(DeepFile, <<"d">>, TRUE, 1))}

\* A file included by vars.yml refers to v with a default and declares it
\* or not; the first can include grand-child.yml, which declares v.
ChildContents(i) ==
  {FileDoc(ChildFile(i), incs, <<>>, variables, VarData(ChildFile(i), RefWithDefault)) :
     incs \in (IF i = 1 THEN {<<>>, <<GrandChildFile>>} ELSE {<<>>}),
     variables \in VarBlocks(ChildFile(i))}

GrandChildContents ==
  {FileDoc(GrandChildFile, <<>>, <<>>, variables, VarData(GrandChildFile, RefWithDefault)) :
     variables \in VarBlocks(GrandChildFile)}

\* The files a.yml, which includes b.yml, which includes c.yml: each
\* defines the key k, on a line of its own, as a scalar, a mapping or a
\* sequence, and has one element under s; a.yml can have the key q, a sequence whose element is a mapping
\* or a sequence.
LineOfK(file) == IF file = FileA THEN 10 ELSE IF file = FileB THEN 20 ELSE 30

InitialOf(file) == IF file = FileA THEN <<"a">> ELSE IF file = FileB THEN <<"b">> ELSE <<"c">>

ValueKinds == {"scalar", "mapping", "sequence"}

ValueOfKind(kind, file, line) ==
  CASE kind = "scalar"   -> Scalar(InitialOf(file), file, line)
    [] kind = "mapping"  -> MapNode(<<Scalar(<<"m">>, file, line + 1),
                                      Scalar(InitialOf(file), file, line + 1)>>,
                                    file, line + 1)
    [] kind = "sequence" -> SeqNode(<<Scalar(InitialOf(file), file, line + 1)>>,
                                    file, line + 1)

DataK(file, kind) ==
  <<Scalar(<<"k">>, file, LineOfK(file)), ValueOfKind(kind, file, LineOfK(file)),
    Scalar(<<"s">>, file, LineOfK(file) + 7),
    SeqNode(<<Scalar(InitialOf(file), file, LineOfK(file) + 8)>>, file, LineOfK(file) + 8)>>

ElementKinds == {"none", "mapping", "sequence"}

DataQ(file, kind) ==
  IF kind = "none" THEN <<>>
  ELSE <<Scalar(<<"q">>, file, 14),
         SeqNode(<<ValueOfKind(kind, file, 14)>>, file, 15)>>

ContentsA ==
  {FileDoc(FileA, <<FileB>>, <<>>, NilNode, DataK(FileA, kind) \o DataQ(FileA, q)) :
     kind \in ValueKinds, q \in ElementKinds}

ContentsB ==
  {FileDoc(FileB, <<FileC>>, <<>>, NilNode, DataK(FileB, kind)) : kind \in ValueKinds}

ContentsC ==
  {FileDoc(FileC, <<>>, <<>>, NilNode, DataK(FileC, kind)) : kind \in ValueKinds}

\* The file a file of an include cycle includes, and the file's content: a
\* mapping with the include list and one element under s.
IncludedBy(path) ==
  IF path = PingFile THEN PongFile ELSE IF path = PongFile THEN PingFile ELSE path

ContentsOfCycle(path) ==
  {FileDoc(path, <<IncludedBy(path)>>, <<>>, NilNode, Data(path, <<"y">>, hasC, 1)) :
     hasC \in BOOLEAN}

Contents(path, ext) ==
  IF path \in {SelfFile, PingFile, PongFile} THEN ContentsOfCycle(path)
  ELSE IF path = FileA THEN ContentsA
  ELSE IF path = FileB THEN ContentsB
  ELSE IF path = FileC THEN ContentsC
  ELSE IF path = RootFile
  THEN (IF ext = <<>>
        THEN RootWithIncludes \cup RootWithPatches \cup RootMalformed
        ELSE RootUnderOptions)
  ELSE IF path = DeepFile THEN DeepContents
  ELSE IF path = VarRootFile THEN RootWithVars
  ELSE IF path = BasicsFile THEN RootWithVarsKey
  ELSE IF path = GrandChildFile THEN GrandChildContents
  ELSE IF \E i \in 1..MaxIncludes : ChildFile(i) = path
  THEN ChildContents(CHOOSE i \in 1..MaxIncludes : ChildFile(i) = path)
  ELSE IF \E i \in 1..MaxIncludes : IncFile(i) = path
  THEN IncContents(CHOOSE i \in 1..MaxIncludes : IncFile(i) = path)
  ELSE {NilNode}

----------------------------------------------------------------------------
(* Load and loadNode (load.go)                                             *)

\* One call of loadNode: the file, where the call is ("open" before the
\* file is read, "include" in the loop over the included files, "patch" in
\* the loop over the patches), its locals, and for the record the trees the
\* included files returned and the tree as it was before the first patch.
Frame(path) ==
  [path |-> path, step |-> "open", root |-> NilNode, files |-> <<>>, fidx |-> 0,
   mergedNode |-> NilNode, patches |-> <<>>, pidx |-> 0, variables |-> NilNode,
   loaded |-> <<>>, merged0 |-> NilNode]

Top == stack[Len(stack)]

MaxDepth == 5

\* One thing Load did: entered a file, merged a file's own content, applied
\* a patch of a file or of the options, returned from a file to the file
\* that includes it, expanded the variables, decoded.
Event(ev, file, idx, where, err, to) ==
  [ev |-> ev, file |-> file, idx |-> idx, where |-> where, err |-> err, to |-> to]

\* The files the patterns of an include list match, in list order; a
\* pattern that matches nothing is an error.  Every file is in the
\* directory of the including file, so that joining the directory and the
\* pattern gives the pattern.
RECURSIVE globAll(_, _, _)
globbedMore(matched, rest) ==
  IF IsErr(rest.err) THEN rest ELSE [err |-> NoErr, files |-> matched \o rest.files]

\* ErrIO.New("%s: failed to find a included file %s", nil, path, include)
includeNotFound(path, include) ==
  [ErrIONew(path, "failed to find a included file") EXCEPT !.tok = <<include>>]

\* A loop that passes over a pattern that matches nothing.
RECURSIVE globAllSkipping(_, _, _)
globAllSkipping(path, content, i) ==
  IF i > Len(content) THEN [err |-> NoErr, files |-> <<>>]
  ELSE globbedMore(fsGlob(content[i].Value), globAllSkipping(path, content, i + 1))

globAll(path, content, i) ==
  IF i > Len(content) THEN [err |-> NoErr, files |-> <<>>]
  ELSE IF fsGlob(content[i].Value) = <<>>
  THEN [err |-> includeNotFound(path, content[i].Value), files |-> <<>>]
  ELSE globbedMore(fsGlob(content[i].Value), globAll(path, content, i + 1))

\* loadNode up to its loop over the included files: the file is read and
\* parsed, its root must be a mapping, the directive block is taken out of
\* it and must be a mapping, and the include patterns are expanded.
globbed(f, root, patches, variables, g) ==
  IF IsErr(g.err) THEN [err |-> g.err, frame |-> f]
  ELSE [err |-> NoErr,
        frame |-> [f EXCEPT !.step = "include", !.root = root, !.files = g.files,
                            !.patches = patches.Content, !.variables = variables]]

\* A loadNode that reads the directive block and leaves it in the tree.
withDirectivesKept(f, d, directives) ==
  IF directives = NilNode
  THEN globbed(f, d, NilNode, NilNode, globAll(f.path, <<>>, 1))
  ELSE IF directives.Kind # "MappingNode"
  THEN [err |-> ErrYAMLNew(f.path, "_directives must be a mapping node"), frame |-> f]
  ELSE globbed(f, d, Get(directives, K_patches),
               Get(directives, K_variables),
               globAll(f.path, Get(directives, K_include).Content, 1))

withDirectives(f, d, directives) ==
  IF directives = NilNode
  THEN globbed(f, d, NilNode, NilNode, globAll(f.path, <<>>, 1))
  ELSE IF directives.Kind # "MappingNode"
  THEN [err |-> ErrYAMLNew(f.path, "_directives must be a mapping node"), frame |-> f]
  ELSE globbed(f, Delete(d, DirectiveKey).n, Get(directives, K_patches),
               Get(directives, K_variables),
               globAll(f.path, Get(directives, K_include).Content, 1))

openFile(f, d) ==
  IF d = NilNode
  THEN [err |-> ErrIONew(f.path, "failed to load given file"), frame |-> f]
  ELSE IF d.Kind # "MappingNode"
  THEN [err |-> ErrYAMLNew(f.path, "root node must be a mapping node"), frame |-> f]
  ELSE withDirectives(f, d, Get(d, DirectiveKey))

\* A loop body that merges what it has into the included file.
includeMergedSwapped(mergedNode, include) ==
  IF mergedNode = NilNode THEN include ELSE Merge(include, mergedNode)

\* The body of loadNode's loop over the included files.
includeMerged(mergedNode, include) ==
  IF mergedNode = NilNode THEN include ELSE Merge(mergedNode, include)

\* loadNode after the loop: the file's own content on top.
ownMerged(mergedNode, root) ==
  IF mergedNode = NilNode THEN root ELSE Merge(mergedNode, root)

\* A loop over the patches from the last to the first.
patchAtReversed(patches, i) == patches[Len(patches) + 1 - i]

\* processPatchNodes: the patch the loop is at.
patchAt(patches, i) == patches[i]

\* A merge in which the variables accumulated so far win over those of the
\* file that returns.
variablesMergedFirstWins(all, variables) ==
  IF variables = NilNode \/ variables.Kind # "MappingNode" THEN all
  ELSE Merge(variables, all)

\* allVariables.Merge(variables), of which loadNode drops the result: the
\* accumulator changes only when the variables are a mapping.
variablesMerged(all, variables) ==
  IF variables = NilNode \/ variables.Kind # "MappingNode" THEN all
  ELSE Merge(all, variables)

\* Load is called: the options, the accumulator of the variables (an empty
\* mapping of the root file) and the first call of loadNode.
Init ==
  /\ TreeIdle
  /\ cfg \in {Config(RootFile, ext, NoResolver, <<>>, FALSE) : ext \in ExtLists}
             \cup {Config("missing.yml", <<>>, NoResolver, <<>>, FALSE)}
             \cup {WithSourceMap(Config(FileA, <<>>, NoResolver, <<>>, FALSE), o[1], o[2]) :
                     o \in {<<TRUE, K_sourcemap>>, <<FALSE, K_sourcemap>>, <<TRUE, <<>>>>}}
             \cup {Config(BasicsFile, <<>>, NoResolver, <<>>, FALSE)}
             \cup {WithEnvJSONPatches(Config(RootFile, <<>>, NoResolver, <<>>, FALSE),
                                      PatchPrefix, environ) : environ \in Environs}
             \cup {Config(VarRootFile, ext, resolver, env, keepsVariables) :
                     ext \in {<<>>, <<ExtRefPatch>>},
                     resolver \in Resolvers, env \in Environments,
                     keepsVariables \in BOOLEAN}
  /\ stack = <<Frame(cfg.name)>>
  /\ allVariables = MapNode(<<>>, cfg.name, 0)
  /\ pc = "loadNode"
  /\ nd = NilNode
  /\ ret = NoErr
  /\ dest = NilNode
  /\ jsonPatchIdx = 0
  /\ trace = <<>>
  /\ declared = <<>>
  /\ steps = 0
  /\ VarIdle
  /\ MapIdle
  /\ ErrIdle

\* Load returns the error e: every call of loadNode under way returns it.
returnError(e, ev) ==
  /\ stack' = <<>>
  /\ pc' = "returned"
  /\ ret' = e
  /\ trace' = Append(trace, ev)

\* The program panics.
panicked(e, ev) ==
  /\ stack' = <<>>
  /\ pc' = "panicked"
  /\ ret' = e
  /\ trace' = Append(trace, ev)

\* What the file system can hold under the name the innermost call opens.
Readable ==
  IF pc = "loadNode" /\ stack # <<>> /\ Top.step = "open"
  THEN Contents(Top.path, cfg.JSONPatches)
  ELSE {}

entered(r, ev) ==
  IF IsErr(r.err)
  THEN returnError(r.err, [ev EXCEPT !.err = r.err])
  ELSE /\ stack' = [stack EXCEPT ![Len(stack)] = r.frame]
       /\ trace' = Append(trace, ev)
       /\ UNCHANGED <<pc, ret>>

\* loadNode reads its file, holding d, and expands its include list.
EnterFile(d) ==
  /\ pc = "loadNode" /\ stack # <<>> /\ Top.step = "open"
  /\ entered(openFile(Top, d), Event("enter", Top.path, 0, NoWhere, NoErr, ""))
  /\ UNCHANGED <<cfg, allVariables, nd, dest, jsonPatchIdx, declared>>
  /\ steps' = steps + 1
  /\ UNCHANGED <<treeVars, varVars, mapVars, errVars>>

\* loadNode calls itself for the next included file.  The calls under way
\* are followed up to MaxDepth of them.
CallInclude ==
  /\ pc = "loadNode" /\ stack # <<>> /\ Top.step = "include"
  /\ Top.fidx < Len(Top.files)
  /\ Len(stack) < MaxDepth
  /\ stack' = Append(stack, Frame(Top.files[Top.fidx + 1]))
  /\ UNCHANGED <<cfg, allVariables, pc, nd, ret, dest, jsonPatchIdx, trace, declared>>
  /\ steps' = steps + 1
  /\ UNCHANGED <<treeVars, varVars, mapVars, errVars>>

ownMergedFrame(f, m) == [f EXCEPT !.step = "patch", !.mergedNode = m, !.merged0 = m]

\* The included files are loaded: the file's own content is merged on top.
MergeOwn ==
  /\ pc = "loadNode" /\ stack # <<>> /\ Top.step = "include"
  /\ Top.fidx = Len(Top.files)
  /\ stack' = [stack EXCEPT
                 ![Len(stack)] = ownMergedFrame(Top, ownMerged(Top.mergedNode, Top.root))]
  /\ trace' = Append(trace, Event("own", Top.path, 0, NoWhere, NoErr, ""))
  /\ UNCHANGED <<cfg, allVariables, pc, nd, ret, dest, jsonPatchIdx, declared>>
  /\ steps' = steps + 1
  /\ UNCHANGED <<treeVars, varVars, mapVars, errVars>>

patched(r, ev) ==
  IF IsPanic(r.err) THEN panicked(r.err, [ev EXCEPT !.err = r.err])
  ELSE IF IsErr(r.err) THEN returnError(r.err, [ev EXCEPT !.err = r.err])
  ELSE /\ stack' = [stack EXCEPT ![Len(stack)].mergedNode = r.n,
                                 ![Len(stack)].pidx = @ + 1]
       /\ trace' = Append(trace, ev)
       /\ UNCHANGED <<pc, ret>>

\* processPatchNodes applies the next patch of the file.
ApplyPatch ==
  /\ pc = "loadNode" /\ stack # <<>> /\ Top.step = "patch"
  /\ Top.pidx < Len(Top.patches)
  /\ \E r \in {processPatchNode(Top.mergedNode, patchAt(Top.patches, Top.pidx + 1))} :
       patched(r, Event("patch", Top.path, Top.pidx + 1,
                        Where(patchAt(Top.patches, Top.pidx + 1)), NoErr, ""))
  /\ UNCHANGED <<cfg, allVariables, nd, dest, jsonPatchIdx, declared>>
  /\ steps' = steps + 1
  /\ UNCHANGED <<treeVars, varVars, mapVars, errVars>>

returnedTo(parent, include) ==
  [parent EXCEPT !.mergedNode = includeMerged(parent.mergedNode, include),
                 !.loaded = Append(parent.loaded, include),
                 !.fidx = @ + 1]

\* loadNode merges the file's variables into the accumulator and returns to
\* the loadNode that called it, which merges the tree into what it has.
ReturnToParent ==
  /\ pc = "loadNode" /\ Len(stack) > 1 /\ Top.step = "patch"
  /\ Top.pidx = Len(Top.patches)
  /\ \E v \in {variablesMerged(allVariables, Top.variables)} : allVariables' = v
  /\ declared' = Append(declared, [file |-> Top.path, variables |-> Top.variables])
  /\ \E parent \in {returnedTo(stack[Len(stack) - 1], Top.mergedNode)} :
       stack' = [SubSeq(stack, 1, Len(stack) - 1) EXCEPT ![Len(stack) - 1] = parent]
  /\ trace' = Append(trace, Event("return", Top.path, 0, NoWhere, NoErr,
                                  stack[Len(stack) - 1].path))
  /\ UNCHANGED <<cfg, pc, nd, ret, dest, jsonPatchIdx>>
  /\ steps' = steps + 1
  /\ UNCHANGED <<treeVars, varVars, mapVars, errVars>>

\* The first loadNode returns to Load, which names the tree after the file.
ReturnToLoad ==
  /\ pc = "loadNode" /\ Len(stack) = 1 /\ Top.step = "patch"
  /\ Top.pidx = Len(Top.patches)
  /\ allVariables' = variablesMerged(allVariables, Top.variables)
  /\ declared' = Append(declared, [file |-> Top.path, variables |-> Top.variables])
  /\ stack' = <<>>
  /\ nd' = [Top.mergedNode EXCEPT !.File = cfg.name]
  /\ pc' = "processVars"
  /\ trace' = Append(trace, Event("return", Top.path, 0, NoWhere, NoErr, ""))
  /\ UNCHANGED <<cfg, ret, dest, jsonPatchIdx>>
  /\ steps' = steps + 1
  /\ UNCHANGED <<treeVars, varVars, mapVars, errVars>>

varsProcessed(r, ev) ==
  /\ r.known
  /\ IF IsErr(r.err) THEN returnError(r.err, [ev EXCEPT !.err = r.err]) /\ UNCHANGED nd
     ELSE /\ nd' = r.n
          /\ pc' = "JSONPatches"
          /\ trace' = Append(trace, ev)
          /\ UNCHANGED <<stack, ret>>

\* Load expands the variables of the tree with the resolver it builds from
\* the options and the accumulated variables.
ProcessVars ==
  /\ pc = "processVars"
  /\ \E r \in {processVars(nd, VarResolverOf(cfg.VarResolver, cfg.Env, allVariables),
                            cfg.KeepsVariables)} :
       varsProcessed(r, Event("processVars", cfg.name, 0, NoWhere, NoErr, ""))
  /\ UNCHANGED <<cfg, allVariables, dest, jsonPatchIdx, declared>>
  /\ steps' = steps + 1
  /\ UNCHANGED <<treeVars, varVars, mapVars, errVars>>

jsonPatched(r, ev) ==
  IF IsPanic(r.err) THEN panicked(r.err, [ev EXCEPT !.err = r.err]) /\ UNCHANGED nd
  ELSE IF IsErr(r.err) THEN returnError(r.err, [ev EXCEPT !.err = r.err]) /\ UNCHANGED nd
  ELSE /\ nd' = r.n
       /\ trace' = Append(trace, ev)
       /\ UNCHANGED <<stack, pc, ret>>

\* Load applies the next patch of the options.
ApplyJSONPatch ==
  /\ pc = "JSONPatches"
  /\ jsonPatchIdx < Len(cfg.JSONPatches)
  /\ jsonPatched(processPatchNode(nd, jsonPatchNode(cfg.JSONPatches[jsonPatchIdx + 1])),
                 Event("jsonpatch", "<LoadOption.JSONPatches>", jsonPatchIdx + 1,
                       Where(jsonPatchNode(cfg.JSONPatches[jsonPatchIdx + 1])), NoErr, ""))
  /\ jsonPatchIdx' = jsonPatchIdx + 1
  /\ UNCHANGED <<cfg, allVariables, dest, declared>>
  /\ steps' = steps + 1
  /\ UNCHANGED <<treeVars, varVars, mapVars, errVars>>

\* Load adds the source comments when they are asked for.
SourceMapComment ==
  /\ pc = "JSONPatches"
  /\ jsonPatchIdx = Len(cfg.JSONPatches)
  /\ pc' = "SourceMapKey"
  /\ IF cfg.SourceMapComment
     THEN /\ nd' = AddSourceComments(nd)
          /\ trace' = Append(trace, Event("comments", cfg.name, 0, NoWhere, NoErr, ""))
     ELSE UNCHANGED <<nd, trace>>
  /\ UNCHANGED <<cfg, stack, allVariables, ret, dest, jsonPatchIdx, declared>>
  /\ steps' = steps + 1
  /\ UNCHANGED <<treeVars, varVars, mapVars, errVars>>

\* Load puts the source map of the tree under the key it was given.
SourceMapKey ==
  /\ pc = "SourceMapKey"
  /\ pc' = "Decode"
  /\ IF cfg.SourceMapKey # <<>>
     THEN /\ nd' = Put(nd, newStringNode(cfg.SourceMapKey, nd.File),
                       sourceMapNode(ToSourceMap(nd, <<"/">>)))
          /\ trace' = Append(trace, Event("sourcemap", cfg.name, 0, NoWhere, NoErr, ""))
     ELSE UNCHANGED <<nd, trace>>
  /\ UNCHANGED <<cfg, stack, allVariables, ret, dest, jsonPatchIdx, declared>>
  /\ steps' = steps + 1
  /\ UNCHANGED <<treeVars, varVars, mapVars, errVars>>

\* Load decodes the tree into the destination and returns.
Decode ==
  /\ pc = "Decode"
  /\ dest' = nd
  /\ pc' = "returned"
  /\ trace' = Append(trace, Event("decode", cfg.name, 0, NoWhere, NoErr, ""))
  /\ UNCHANGED <<cfg, stack, allVariables, nd, ret, jsonPatchIdx, declared>>
  /\ steps' = steps + 1
  /\ UNCHANGED <<treeVars, varVars, mapVars, errVars>>

Next ==
  \/ \E d \in Readable : EnterFile(d)
  \/ CallInclude
  \/ MergeOwn
  \/ ApplyPatch
  \/ ReturnToParent
  \/ ReturnToLoad
  \/ ProcessVars
  \/ ApplyJSONPatch
  \/ SourceMapComment
  \/ SourceMapKey
  \/ Decode

Spec == Init /\ [][Next]_vars

\* Load is called on a file of an include cycle, or on the root file with
\* or without patches in the options.  Load runs in the goroutine of its
\* caller from its first statement to its return: a step that can be taken
\* is taken.
InitLive ==
  /\ TreeIdle
  /\ cfg \in {Config(name, <<>>, NoResolver, <<>>, FALSE) : name \in {SelfFile, PingFile}}
             \cup {Config(RootFile, ext, NoResolver, <<>>, FALSE) : ext \in ExtLists}
  /\ stack = <<Frame(cfg.name)>>
  /\ allVariables = MapNode(<<>>, cfg.name, 0)
  /\ pc = "loadNode"
  /\ nd = NilNode
  /\ ret = NoErr
  /\ dest = NilNode
  /\ jsonPatchIdx = 0
  /\ trace = <<>>
  /\ declared = <<>>
  /\ steps = 0
  /\ VarIdle
  /\ MapIdle
  /\ ErrIdle

\* A step of Load can be taken: Load has neither returned nor panicked, and
\* loadNode is not about to call itself deeper than the calls are followed.
\* This is ENABLED <<Next>>_vars, written on the position of the program.
CanStep ==
  /\ pc \notin {"returned", "panicked"}
  /\ ~(/\ pc = "loadNode" /\ stack # <<>> /\ Top.step = "include"
       /\ Top.fidx < Len(Top.files) /\ Len(stack) >= MaxDepth)

\* Steps are taken only where CanStep says so.
StepsWhereCanStep == [][CanStep]_vars

\* A step of Load is counted.  Every step of Next is counted and CanStep is
\* ENABLED <<Next>>_vars, so that weak fairness of Counted is weak fairness
\* of Next.
Counted == CanStep /\ steps' = steps + 1

SpecLive == InitLive /\ [][Next]_vars /\ WF_steps(Counted)

----------------------------------------------------------------------------
(* Properties of Load                                                      *)

\* The trees of a list merged from the first to the last.
RECURSIVE MergeAll(_, _)
MergeAll(trees, k) ==
  IF k = 1 THEN trees[1] ELSE Merge(MergeAll(trees, k - 1), trees[k])

\* The elements under s of the trees of a list, in list order.
RECURSIVE ElementsOf(_)
ElementsOf(trees) ==
  IF trees = <<>> THEN <<>>
  ELSE Get(Head(trees), <<"s">>).Content \o ElementsOf(Tail(trees))

\* The value of c in the last tree of a list that has one.
RECURSIVE LastC(_, _)
LastC(trees, k) ==
  IF k = 0 THEN NilNode
  ELSE IF Get(trees[k], <<"c">>) # NilNode THEN Get(trees[k], <<"c">>)
  ELSE LastC(trees, k - 1)

\* The tree a call returned for its i-th included file holds that file's
\* elements.
loadedInListOrder(f) ==
  \A i \in 1..Len(f.loaded) :
    \E j \in 1..Len(Get(f.loaded[i], <<"s">>).Content) :
      Get(f.loaded[i], <<"s">>).Content[j].File = f.files[i]

includesThenOwn(f, trees) ==
  /\ f.merged0 = MergeAll(trees, Len(trees))
  /\ Get(f.merged0, <<"c">>) = LastC(trees, Len(trees))
  /\ Get(f.merged0, <<"s">>).Content = ElementsOf(trees)
  /\ loadedInListOrder(f)

\* C1: what a file gives before its patches is the merge of what its
\* included files gave, in list order, with its own content merged on top:
\* the scalar c is that of the including file when it has one and else
\* that of the last included file that has one, and the sequence s holds
\* the elements of the included files in list order and then the file's own.
C1_IncludesThenOwn ==
  \A i \in 1..Len(stack) :
    stack[i].step = "patch" => includesThenOwn(stack[i], Append(stack[i].loaded, stack[i].root))

\* The root file lists the second file before the first; all three files
\* have a scalar c, and the root file's content has been merged on top.
C1_Witness ==
  /\ Len(stack) = 1
  /\ Top.step = "patch"
  /\ Top.files = <<IncFile(2), IncFile(1)>>
  /\ Get(Top.loaded[1], <<"c">>) # NilNode
  /\ Get(Top.loaded[2], <<"c">>) # NilNode
  /\ Get(Top.root, <<"c">>) # NilNode
  /\ Get(Top.merged0, <<"c">>).File = RootFile
  /\ Len(Get(Top.merged0, <<"s">>).Content) >= 5

\* The tree after the first k patches of a list.
RECURSIVE PatchesApplied(_, _, _)
PatchesApplied(n, patches, k) ==
  IF k = 0 THEN n
  ELSE processPatchNode(PatchesApplied(n, patches, k - 1), patches[k]).n

\* The number of patches of a file applied before the j-th event.
PatchesBefore(file, j) ==
  Cardinality({i \in 1..(j - 1) : trace[i].ev = "patch" /\ trace[i].file = file})

\* The j-th event, a patch of a file, is the next of the file's list, comes
\* after the file's own content was merged and before the file returned.
patchInOrder(j, file) ==
  /\ trace[j].idx = PatchesBefore(file, j) + 1
  /\ \E i \in 1..(j - 1) : trace[i].ev = "own" /\ trace[i].file = file
  /\ \A i \in 1..(j - 1) : ~(trace[i].ev = "return" /\ trace[i].file = file)

\* The j-th event, a return to an including file, comes before that file's
\* own content is merged.
returnBeforeOwn(j, to) ==
  \A i \in 1..(j - 1) : ~(trace[i].ev = "own" /\ trace[i].file = to)

\* The values of the elements of a sequence.
ValuesOf(n) == [i \in 1..Len(n.Content) |-> n.Content[i].Value]

\* An included file's add at index 1 of s has put its value between that
\* file's two elements, and the including file's element comes after them.
insertedBetween(f) ==
  (/\ f.path = RootFile /\ f.files = <<IncFile(1)>>
   /\ \E j \in 1..Len(trace) : trace[j].ev = "patch" /\ trace[j].file = IncFile(1)
   /\ \A j \in 1..Len(trace) : trace[j].file # DeepFile)
  => ValuesOf(Get(f.merged0, <<"s">>)) = <<<<"1", "0">>, <<"z">>, <<"1", "1">>, <<"t", "0">>>>

\* C3: the patches of a file are applied in listed order, each to the tree
\* the one before it left, after the file's included files and own content
\* were merged and before the file returns to the file that includes it,
\* whose own content is merged on top of what the patches made.
C3_PatchesInOrder ==
  /\ \A i \in 1..Len(stack) :
       stack[i].step = "patch" =>
         /\ stack[i].mergedNode
              = PatchesApplied(stack[i].merged0, stack[i].patches, stack[i].pidx)
         /\ insertedBetween(stack[i])
  /\ \A j \in 1..Len(trace) :
       /\ trace[j].ev = "patch" => patchInOrder(j, trace[j].file)
       /\ (trace[j].ev = "return" /\ trace[j].to # "") => returnBeforeOwn(j, trace[j].to)

\* The included file's add at index 1 is between its elements, the root
\* file's element after them, and the root file's own patch has appended.
C3_Witness ==
  /\ Len(stack) = 1
  /\ Top.step = "patch"
  /\ Top.files = <<IncFile(1)>>
  /\ Top.pidx = 1
  /\ ValuesOf(Get(Top.mergedNode, <<"s">>))
       = <<<<"1", "0">>, <<"z">>, <<"1", "1">>, <<"t", "0">>, <<"x">>>>

\* C10, as the specification states it: when a patch fails Load returns an
\* error of the directive category that has the patch's file and line,
\* nothing is applied or merged after the patch, the variables were not
\* expanded and nothing is decoded.
C10_AsClaimed ==
  \A j \in 1..Len(trace) :
    (trace[j].ev \in {"patch", "jsonpatch"} /\ IsErr(trace[j].err)) =>
      /\ pc = "returned"
      /\ ret.cat = "directive error"
      /\ ret.where = trace[j].where
      /\ j = Len(trace)
      /\ dest = NilNode
      /\ \A i \in 1..(j - 1) : trace[i].ev # "processVars"

----------------------------------------------------------------------------
(* The expansion of one scalar (specification SpecVar)                     *)

\* The most references (or broken references) one scalar is built of.
MaxRefs == 2

\* The longest scalar of the scalars made of every combination of the
\* characters of a reference.
MaxRawLen == 3

K_K == <<"K">>

K_B == <<"B">>

\* The defaults of the references: unquoted, of every guessed type, and
\* quoted as they are written between the quotes.
UnquotedDefaults ==
  {<<"1", "0">>, <<"0">>, <<"a">>, <<"t", "r", "u", "e">>, <<"a", " ", "b">>, <<"[">>,
   <<>>, <<"1", ".", "5">>}


QuotedDefaults ==
  {<<>>, <<"1", "0", ".", "0">>, <<"e", " ", "e", " ", "e">>, <<"a", "\\", "\"", "b">>,
   <<"x", "}">>, <<"\\", "\\">>}

\* The references to a name: bare, with an unquoted default, with a quoted
\* default, and with text between the name and the closing brace.
Refs(name) ==
  {<<"$", "{">> \o name \o <<"}">>, <<"$", "{">> \o name \o <<" ", "x", "}">>}
  \cup {<<"$", "{">> \o name \o <<":">> \o d \o <<"}">> : d \in UnquotedDefaults}
  \cup {<<"$", "{">> \o name \o <<":", "\"">> \o d \o <<"\"", "}">> : d \in QuotedDefaults}

\* What is no reference: the closing brace is missing, the name is empty,
\* the dollar sign is escaped, or text follows the closing quote.
Broken(name) ==
  {<<"$", "{">> \o name,
   <<"$", "{">> \o name \o <<":", "1", "0">>,
   <<"$", "{">> \o name \o <<":", "1", "0", " ", "b">>,
   <<"$", "{">> \o name \o <<":", "\"", "a", "a">>,
   <<"$", "{">> \o name \o <<":", "\"", "a", "}">>,
   <<"$", "{">> \o name \o <<":", "\"", "a", "\"", "x", "}">>,
   <<"$", "{">> \o name \o <<":">>,
   <<"$", "{", "}">>, <<"$", "{", "[", "]", "}">>, <<"$", "{">>, <<"$">>,
   <<"$", "$", "{">> \o name \o <<":", "a", "a", "a", "}">>,
   <<"$", "$", "{">> \o name \o <<"}">>}

FirstPieces == Refs(K_K) \cup Broken(K_K)

MorePieces ==
  {<<"$", "{", "B", "}">>, <<"$", "{", "K", ":", "1", "0", "}">>,
   <<"$", "{", "B", ":", "\"", "e", " ", "e", "\"", "}">>, <<"$", "{", "B">>}

\* The scalars of n pieces, with or without text between them.
RECURSIVE Texts(_)
Texts(n) ==
  IF n = 1 THEN FirstPieces
  ELSE {t \o sep \o p : t \in Texts(n - 1), sep \in {<<>>, <<" ", "b", " ">>},
                        p \in MorePieces}

RawChars == {"$", "{", "}", "K", ":", "\""}

RawScalars == UNION {[1..n -> RawChars] : n \in 0..MaxRawLen}

\* References whose name starts with a digit, an underscore or a hyphen.
OddlyNamed ==
  {<<"$", "{", "1", "K", "}">>, <<"$", "{", "_", "K", ":", "1", "}">>,
   <<"$", "{", "-", ":", "1", "}">>, <<"$", "{", "1", "}">>}

Scalars ==
  RawScalars
  \cup OddlyNamed
  \cup {pre \o t \o post : pre \in {<<>>, <<"d", " ">>}, post \in {<<>>, <<" ", "f">>},
                           t \in UNION {Texts(n) : n \in 1..MaxRefs}}

\* The values K can have in the environment or from the resolver of the
\* options.
EnvValues ==
  {<<>>, <<"a", "a", "a">>, <<"9", "9">>, <<"t", "r", "u", "e">>,
   <<"T", "r", "u", "e">>, <<"~">>, <<"}">>, <<"a", " ", "b">>, <<"a", "\"", "b">>,
   <<"\\">>}

\* The directive variables: none, K a scalar, K a sequence.
DirectiveVars ==
  {NilNode,
   MapNode(<<Scalar(K_K, "test.yml", 3), Scalar(<<"1", "0">>, "test.yml", 3)>>, "test.yml", 3),
   MapNode(<<Scalar(K_K, "test.yml", 3), SeqNode(<<>>, "test.yml", 3)>>, "test.yml", 3)}

\* An error of a resolver that is not ErrVarNotFound.
ErrResolver == [NoErr EXCEPT !.msg = "resolver failed", !.is = {"errResolver"}]

\* The resolvers: the environment sets K or not, and B or not; the
\* directive variables declare K or not; the options bring a resolver that
\* knows K, fails for K, or knows nothing.
VarResolvers ==
  {VarResolverOf(NoResolver, env, NilNode) :
     env \in {<<>>, K_B :> <<"c", "c", "c">>} \cup {K_K :> e : e \in EnvValues}
             \cup {(K_K :> <<"a", "a", "a">>) @@ (K_B :> <<"c", "c", "c">>)}}
  \cup {VarResolverOf(NoResolver, env, variables) :
          env \in {<<>>, K_K :> <<"9", "9">>}, variables \in DirectiveVars}
  \cup {VarResolverOf(CustomResolver(f), K_K :> <<"9", "9">>, variables) :
          f \in {<<>>, K_K :> Resolved(<<"u">>, NoErr), K_K :> Resolved(<<>>, ErrResolver)},
          variables \in DirectiveVars}

Inputs ==
  {[v |-> v, resolver |-> r, keepsVariables |-> k] :
     v \in Scalars, r \in VarResolvers, k \in BOOLEAN}

InitVar ==
  /\ TreeIdle
  /\ LoadIdle
  /\ MapIdle
  /\ ErrIdle
  /\ input \in Inputs
  /\ expansion = [NoExpansion EXCEPT !.stage = "start"]

\* expandVar is called with the scalar.
ExpandVar ==
  /\ expansion.stage = "start"
  /\ expansion' = [expansion EXCEPT
                     !.stage = "expanded",
                     !.first = expandVar(input.v, input.resolver, input.keepsVariables)]
  /\ UNCHANGED <<input, treeVars, loadVars, mapVars, errVars>>

\* What expandVar made with the expressions kept is expanded again, now
\* substituting, with the same resolver.
ExpandAgain ==
  /\ expansion.stage = "expanded"
  /\ input.keepsVariables
  /\ ~IsErr(expansion.first.err)
  /\ expansion' = [expansion EXCEPT
                     !.stage = "again",
                     !.again = expandVar(expansion.first.out, input.resolver, FALSE)]
  /\ UNCHANGED <<input, treeVars, loadVars, mapVars, errVars>>

scalarProcessed(r) ==
  /\ r.known
  /\ expansion' = [expansion EXCEPT !.stage = "processed", !.node = r.n, !.err = r.err]

\* processVars is called with a node that holds the scalar: a string on
\* line 3 of test.yml.
ProcessScalar ==
  /\ expansion.stage = "start"
  /\ scalarProcessed(processVars(Scalar(input.v, "test.yml", 3), input.resolver,
                                 input.keepsVariables))
  /\ UNCHANGED <<input, treeVars, loadVars, mapVars, errVars>>

\* A tree built around a scalar v: v is a key and its value, the value of a
\* scalar with the tag !t, an element of a sequence, and a key and its value
\* in a mapping of that sequence; beside them an alias, a number and a
\* string without a reference.
Tagged(v, tag, file, line) == Node("ScalarNode", v, tag, file, line, <<>>, 0)

AliasTo(anchor, file, line) == Node("AliasNode", anchor, "", file, line, <<>>, 0)

TreeAround(v) ==
  MapNode(<<Scalar(v, "test.yml", 3), Scalar(v, "test.yml", 3),
            Scalar(<<"t">>, "test.yml", 4), Tagged(v, "!t", "test.yml", 4),
            Scalar(<<"a">>, "test.yml", 5), AliasTo(<<"x">>, "test.yml", 5),
            Scalar(<<"n">>, "test.yml", 6), Tagged(<<"1", "0">>, "!!int", "test.yml", 6),
            Scalar(<<"s">>, "test.yml", 7),
            SeqNode(<<Scalar(v, "test.yml", 8), Scalar(<<"p">>, "test.yml", 9),
                      MapNode(<<Scalar(v, "test.yml", 10), Scalar(v, "test.yml", 10)>>,
                              "test.yml", 10)>>, "test.yml", 8)>>,
          "test.yml", 3)

\* The scalars the trees are built around: one reference to K or one
\* broken reference.
TreeScalars == FirstPieces

treeProcessed(r) ==
  /\ r.known
  /\ expansion' = [expansion EXCEPT !.stage = "tree", !.node = r.n, !.err = r.err]

\* processVars is called with the tree built around the scalar.
ProcessTree ==
  /\ expansion.stage = "start"
  /\ input.v \in TreeScalars
  /\ treeProcessed(processVars(TreeAround(input.v), input.resolver, input.keepsVariables))
  /\ UNCHANGED <<input, treeVars, loadVars, mapVars, errVars>>

NextVar == ExpandVar \/ ExpandAgain \/ ProcessScalar \/ ProcessTree

SpecVar == InitVar /\ [][NextVar]_vars

----------------------------------------------------------------------------
(* Properties of the expansion of one scalar                               *)

\* The first source of a resolver: the resolver of the options when there
\* is one, the environment otherwise; what it holds for a key, if anything.
FirstSourceHas(r, key) ==
  IF r.custom.set
  THEN key \in DOMAIN r.custom.f /\ ~ErrorsIs(r.custom.f[key].err, "ErrVarNotFound")
  ELSE key \in DOMAIN r.env

FirstSourceGives(r, key) ==
  IF r.custom.set THEN r.custom.f[key] ELSE Resolved(r.env[key], NoErr)

\* What the chain is to give for a key: the first source's answer, else the
\* directive variable, else not found.
ChainGives(r, key) ==
  IF FirstSourceHas(r, key) THEN FirstSourceGives(r, key)
  ELSE IF r.variables # NilNode /\ Get(r.variables, key) # NilNode
  THEN (IF Get(r.variables, key).Kind = "ScalarNode"
        THEN Resolved(Get(r.variables, key).Value, NoErr)
        ELSE Resolved(<<>>, ErrDirectiveNew(NoWhere,
                              [NoErr EXCEPT !.msg = "variable %s must be a scalar node",
                                            !.tok = key])))
  ELSE Resolved(<<>>, ErrVarNotFoundNew(key))

\* The scalar "${K} f": one bare reference followed by text.
BareKThenText == <<"$", "{", "K", "}", " ", "f">>

chainUsed(e, want) ==
  IF IsErr(want.err) THEN e.err = want.err
  ELSE ~IsErr(e.err) /\ e.out = want.v \o <<" ", "f">>

----------------------------------------------------------------------------
(* Properties of Load: variables                                           *)

\* Load has called processVars.
VarsRan == \E j \in 1..Len(trace) : trace[j].ev = "processVars"

\* The resolver Load was called with, by its sources.
LoadResolver == VarResolverOf(cfg.VarResolver, cfg.Env, allVariables)

\* No source has a value for v: not the resolver of the options or the
\* environment, not the variables the files declared.
NowhereFound ==
  /\ ~FirstSourceHas(LoadResolver, K_v)
  /\ \A k \in 1..Len(declared) :
       declared[k].variables = NilNode \/ Get(declared[k].variables, K_v) = NilNode

\* C12: when the expressions are not kept, a reference without default
\* that no resolver finds makes Load fail with an error of the category
\* ErrVarNotFound that names the key, and nothing is decoded.  The only
\* other outcome of a load in which no source has v is the one of the
\* reference with the default 0, which gives the integer 0.
C12_NotFoundFailsLoad ==
  (/\ VarsRan
   /\ cfg.name = VarRootFile
   /\ ~cfg.KeepsVariables
   /\ NowhereFound)
  => \/ /\ Get(nd, <<"c">>).Value = RefBare
        /\ pc = "returned"
        /\ ErrorsIs(ret, "ErrVarNotFound")
        /\ ret.cat = "variable not found"
        /\ ret.tok = K_v
        /\ dest = NilNode
     \/ /\ Get(nd, <<"c">>).Value = <<"0">>
        /\ Get(nd, <<"c">>).Tag = "!!int"
        /\ ~IsErr(ret)

\* Load has failed on ${v} in a tree merged from three files of which none
\* declares v.
C12_Witness ==
  /\ VarsRan
  /\ ~cfg.KeepsVariables
  /\ Get(nd, <<"c">>).Value = RefBare
  /\ NowhereFound
  /\ Len(declared) = 3
  /\ pc = "returned"
  /\ ret.cat = "variable not found"


\* No source of a resolver has a value for a key.
NotFoundAnywhere(r, key) ==
  /\ ~FirstSourceHas(r, key)
  /\ (r.variables = NilNode \/ Get(r.variables, key) = NilNode)

\* The scalars that are one reference to K with a default that is quoted,
\* or unquoted and not empty.
EmptyQuotedDefault == <<"$", "{", "K", ":", "\"", "\"", "}">>

OneRefWithDefault ==
  {<<"$", "{", "K", ":">> \o d \o <<"}">> : d \in UnquotedDefaults \ {<<>>}}
  \cup {<<"$", "{", "K", ":", "\"">> \o d \o <<"\"", "}">> : d \in QuotedDefaults}

\* C13, as the specification states it: a reference with a default that no
\* resolver finds never fails with variable-not-found, and ${K:""} becomes
\* the empty string.
C13_AsClaimed ==
  (/\ expansion.stage = "processed"
   /\ ~input.keepsVariables
   /\ input.v \in OneRefWithDefault
   /\ NotFoundAnywhere(input.resolver, K_K))
  => /\ ~ErrorsIs(expansion.err, "ErrVarNotFound")
     /\ input.v = EmptyQuotedDefault
          => (expansion.node.Value = <<>> /\ expansion.node.Tag = "!!str")


\* The text the chain of resolvers or, failing it, the default gives for K.
TextFor(r, def) ==
  IF IsErr(ChainGives(r, K_K).err) THEN def ELSE ChainGives(r, K_K).v

\* The type YAML gives a text, for the texts of the table.
TypedTexts ==
  {<<<<"1", "0">>, "!!int">>, <<<<"0">>, "!!int">>, <<<<"9", "9">>, "!!int">>,
   <<<<"1", ".", "5">>, "!!float">>, <<<<"t", "r", "u", "e">>, "!!bool">>,
   <<<<"a">>, "!!str">>, <<<<"a", "a", "a">>, "!!str">>, <<<<"u">>, "!!str">>,
   <<<<"a", " ", "b">>, "!!str">>}

\* The scalar ${K:d}.
WithDefault(d) == <<"$", "{", "K", ":">> \o d \o <<"}">>

typedAs(node, err, text) ==
  \A p \in TypedTexts :
    p[1] = text => (~IsErr(err) /\ node.Value = text /\ node.Tag = p[2])

stringOf(node, err, text) ==
  \A p \in TypedTexts :
    p[1] = text => (~IsErr(err) /\ node.Value = text /\ node.Tag = "!!str")

\* The unquoted defaults that do not look like a string, and those that do.
TypedDefaults == {<<"1", "0">>, <<"0">>, <<"t", "r", "u", "e">>, <<"1", ".", "5">>}
StringDefaults == {<<"a">>, <<"a", " ", "b">>, <<"[">>}

\* C14: a scalar that is one reference with an unquoted default becomes the
\* scalar its substituted text parses to: ${K:10} is the integer 10 when K
\* is nowhere, the integer 99 when the environment has K=99, and ${K:0} is
\* the integer 10 when the directive variables declare K: 10. The text that
\* is substituted for a default that looks like a string is quoted when it
\* would parse to something else, and so stays a string.
C14_TypedByReparsing ==
  (/\ expansion.stage = "processed"
   /\ ~input.keepsVariables
   /\ ~ErrorsIs(ChainGives(input.resolver, K_K).err, "ErrDirective")
   /\ ~ErrorsIs(ChainGives(input.resolver, K_K).err, "errResolver"))
  => /\ \A d \in TypedDefaults :
          input.v = WithDefault(d)
            => typedAs(expansion.node, expansion.err, TextFor(input.resolver, d))
     /\ \A d \in StringDefaults :
          input.v = WithDefault(d)
            => stringOf(expansion.node, expansion.err, TextFor(input.resolver, d))

\* ${K:10} has become the integer 99 that the environment has for K.
C14_Witness ==
  /\ expansion.stage = "processed"
  /\ ~input.keepsVariables
  /\ input.v = WithDefault(<<"1", "0">>)
  /\ ~input.resolver.custom.set
  /\ K_K \in DOMAIN input.resolver.env
  /\ input.resolver.variables = NilNode
  /\ expansion.node.Value = <<"9", "9">>
  /\ expansion.node.Tag = "!!int"


\* A double-quoted default as it is written, and the text it stands for.
QuotedTexts ==
  {<<<<>>, <<>>>>,
   <<<<"1", "0", ".", "0">>, <<"1", "0", ".", "0">>>>,
   <<<<"e", " ", "e", " ", "e">>, <<"e", " ", "e", " ", "e">>>>,
   <<<<"a", "\\", "\"", "b">>, <<"a", "\"", "b">>>>,
   <<<<"x", "}">>, <<"x", "}">>>>,
   <<<<"\\", "\\">>, <<"\\">>>>}

\* The scalar ${K} and the scalar ${K:"d"}.
BareK == <<"$", "{", "K", "}">>
WithQuoted(d) == <<"$", "{", "K", ":", "\"">> \o d \o <<"\"", "}">>

isString(node, err, text) ==
  ~IsErr(err) /\ node.Tag = "!!str" /\ node.Value = text

\* The resolver chain answers for K, or the default is there to be used.
Answered(r, def) ==
  /\ ~ErrorsIs(ChainGives(r, K_K).err, "ErrDirective")
  /\ ~ErrorsIs(ChainGives(r, K_K).err, "errResolver")
  /\ (NotFoundAnywhere(r, K_K) => def # <<>>)

\* C15, as the specification states it: a scalar that is one bare reference
\* or one reference with a double-quoted default becomes a string whose
\* value is the resolved text or the unescaped default, whatever the text
\* looks like.
C15_AsClaimed ==
  (expansion.stage = "processed" /\ ~input.keepsVariables)
  => /\ (input.v = BareK /\ Answered(input.resolver, <<>>))
          => isString(expansion.node, expansion.err, TextFor(input.resolver, <<>>))
     /\ \A p \in QuotedTexts :
          (input.v = WithQuoted(p[1]) /\ Answered(input.resolver, p[2]))
            => isString(expansion.node, expansion.err, TextFor(input.resolver, p[2]))

\* The resolved texts that a string reference turns into something else.
NotGuessed == {<<"T", "r", "u", "e">>, <<"~">>}

\* What holds of the program: C15_AsClaimed for every text but those YAML
\* reads as a boolean or a null and guessScalarNodeTag reads as a string.
C15_ExceptNotGuessed ==
  (/\ expansion.stage = "processed"
   /\ ~input.keepsVariables
   /\ ChainGives(input.resolver, K_K).v \notin NotGuessed)
  => C15_AsClaimed

\* ${K} with K=True in the environment has become the boolean True.
C15_Diverges ==
  /\ expansion.stage = "processed"
  /\ ~input.keepsVariables
  /\ input.v = BareK
  /\ ChainGives(input.resolver, K_K).v = <<"T", "r", "u", "e">>
  /\ expansion.node.Tag = "!!bool"


HasByte(v, c) == \E k \in 1..Len(v) : v[k] = c

\* expandVar has left the scalar as it was and has asked no resolver.
Verbatim == 
  /\ expansion.first.out = input.v
  /\ expansion.first.calls = <<>>
  /\ ~IsErr(expansion.first.err)

\* A "${" with an empty name, alone or inside text.
EmptyNames ==
  {pre \o t \o post : pre \in {<<>>, <<"d", " ">>}, post \in {<<>>, <<" ", "f">>},
                      t \in {<<"$", "{", "}">>, <<"$", "{", "[", "]", "}">>}}

\* A quoted default whose closing quote is missing, with the brace inside.
UnterminatedQuoted == <<"$", "{", "K", ":", "\"", "a", "}">>

\* The tail of v is an unterminated reference to B.
EndsUnterminated(v) ==
  /\ Len(v) >= 3
  /\ SubSeq(v, Len(v) - 2, Len(v)) = <<"$", "{", "B">>

\* C16: a "${" whose closing brace is never found and a "${" with an empty
\* name are left in the output byte for byte; no resolver is called for
\* them and no error is raised.
C16_UnterminatedVerbatim ==
  expansion.stage = "expanded"
  => /\ ~HasByte(input.v, "}") => Verbatim
     /\ input.v \in EmptyNames => Verbatim
     /\ input.v = UnterminatedQuoted => Verbatim
     /\ (EndsUnterminated(input.v) /\ ~IsErr(expansion.first.err))
          => /\ EndsUnterminated(expansion.first.out)
             /\ \A k \in 1..Len(expansion.first.calls) : expansion.first.calls[k] # K_B

\* ${K:10 b, an unquoted default without its closing brace, has been
\* expanded with K set in the environment.
C16_Witness ==
  /\ expansion.stage = "expanded"
  /\ input.v = <<"$", "{", "K", ":", "1", "0", " ", "b">>
  /\ K_K \in DOMAIN input.resolver.env
  /\ Verbatim


\* The scalars with one "$$" and no other "$".
EscapedOnly(v) ==
  \E k \in 1..(Len(v) - 1) :
    /\ v[k] = "$" /\ v[k + 1] = "$"
    /\ \A m \in 1..Len(v) : v[m] = "$" => m \in {k, k + 1}

EscapedRef == <<"$", "$", "{", "K", ":", "a", "a", "a", "}">>

\* C17: "$$" suppresses the interpretation of what follows it: $${K:aaa} is
\* output unchanged, both dollar signs and the braces kept, whether or not K
\* is defined, and no resolver is called for K.
C17_EscapedUnchanged ==
  /\ (expansion.stage = "expanded" /\ EscapedOnly(input.v)) => Verbatim
  /\ (expansion.stage = "processed" /\ EscapedOnly(input.v))
       => (~IsErr(expansion.err) /\ expansion.node.Value = input.v
           /\ expansion.node.Tag = "!!str")

\* $${K:aaa} has been expanded with K set in the environment.
C17_Witness ==
  /\ expansion.stage = "expanded"
  /\ input.v = EscapedRef
  /\ K_K \in DOMAIN input.resolver.env
  /\ Verbatim


\* A reference as it is written, with its name, the text of its default
\* and whether its inferred type is string.
Ref(text, name, def, str) == [text |-> text, name |-> name, def |-> def, str |-> str]

RefsToK ==
  {Ref(BareK, K_K, <<>>, TRUE), Ref(<<"$", "{", "K", " ", "x", "}">>, K_K, <<>>, TRUE),
   Ref(WithDefault(<<>>), K_K, <<>>, TRUE)}
  \cup {Ref(WithDefault(d), K_K, d, FALSE) : d \in TypedDefaults}
  \cup {Ref(WithDefault(d), K_K, d, TRUE) : d \in StringDefaults}
  \cup {Ref(WithQuoted(p[1]), K_K, p[2], TRUE) : p \in QuotedTexts}

MoreRefs ==
  {Ref(<<"$", "{", "B", "}">>, K_B, <<>>, TRUE),
   Ref(WithDefault(<<"1", "0">>), K_K, <<"1", "0">>, FALSE),
   Ref(<<"$", "{", "B", ":", "\"", "e", " ", "e", "\"", "}">>, K_B, <<"e", " ", "e">>, TRUE)}

\* The texts with a "}", a double quote or white space, and those that read
\* as a number, a boolean or a null.
NeedQuoting ==
  {<<"9", "9">>, <<"1", "0">>, <<"0">>, <<"1", ".", "5">>, <<"1", "0", ".", "0">>,
   <<"t", "r", "u", "e">>, <<"}">>, <<"x", "}">>, <<"a", " ", "b">>, <<"e", " ", "e">>,
   <<"e", " ", "e", " ", "e">>, <<"a", "\"", "b">>}

\* The text between double quotes, backslash and double quote escaped.
InQuotes(t) ==
  <<"\"">> \o (IF t = <<"a", "\"", "b">> THEN <<"a", "\\", "\"", "b">> ELSE t) \o <<"\"">>

\* What the resolvers give for the name of a reference, else its default.
ResolvedFor(r, ref) ==
  IF IsErr(ChainGives(r, ref.name).err) THEN ref.def ELSE ChainGives(r, ref.name).v

rewritten(ref, t) ==
  IF t = <<>> THEN <<"$", "{">> \o ref.name \o <<"}">>
  ELSE IF ref.str /\ t \in NeedQuoting
  THEN <<"$", "{">> \o ref.name \o <<":">> \o InQuotes(t) \o <<"}">>
  ELSE <<"$", "{">> \o ref.name \o <<":">> \o t \o <<"}">>

Rewritten(r, ref) == rewritten(ref, ResolvedFor(r, ref))

Befores == {<<>>, <<"d", " ">>}
Betweens == {<<>>, <<" ", "b", " ">>}
Afters == {<<>>, <<" ", "f">>}

\* C18: when the expressions are kept no reference is substituted: each is
\* rewritten to ${NAME:resolved}, the resolved text between double quotes
\* (backslash and double quote escaped) when the reference is of string
\* type and the text needs quoting, or to ${NAME} when the resolved text is
\* empty; the text outside the references is unchanged.
C18_KeepRewrites ==
  (/\ expansion.stage = "expanded"
   /\ input.keepsVariables
   /\ ~IsErr(expansion.first.err))
  => /\ \A pre \in Befores, post \in Afters, p \in RefsToK :
          input.v = pre \o p.text \o post
            => expansion.first.out = pre \o Rewritten(input.resolver, p) \o post
     /\ \A pre \in Befores, post \in Afters, p \in RefsToK, sep \in Betweens, q \in MoreRefs :
          input.v = pre \o p.text \o sep \o q.text \o post
            => expansion.first.out
                 = pre \o Rewritten(input.resolver, p) \o sep
                       \o Rewritten(input.resolver, q) \o post

\* ${K:10} b ${B} has become ${K:aaa} b ${B:ccc} with K=aaa and B=ccc.
C18_Witness ==
  /\ expansion.stage = "expanded"
  /\ input.keepsVariables
  /\ input.v = <<"$", "{", "K", ":", "1", "0", "}", " ", "b", " ", "$", "{", "B", "}">>
  /\ expansion.first.out
       = <<"$", "{", "K", ":", "a", "a", "a", "}", " ", "b", " ",
           "$", "{", "B", ":", "c", "c", "c", "}">>


\* The same outcome: an error in both, or the same text in both.
SameOutcome(a, b) ==
  /\ IsErr(a.err) <=> IsErr(b.err)
  /\ ~IsErr(a.err) => a.out = b.out

\* C19, as the specification states it: expanding a scalar with the
\* expressions kept and then expanding the result in the substituting mode
\* with the same resolvers gives the same outcome as expanding the scalar
\* directly in the substituting mode.
C19_AsClaimed ==
  /\ expansion.stage = "again"
       => SameOutcome(expansion.again, expandVar(input.v, input.resolver, FALSE))
  /\ (expansion.stage = "expanded" /\ input.keepsVariables /\ IsErr(expansion.first.err))
       => IsErr(expandVar(input.v, input.resolver, FALSE).err)

\* ${K:10} with K=} in the environment: kept it is ${K:}}, which expands to
\* }} where the direct expansion gives }.
C19_Diverges ==
  /\ expansion.stage = "again"
  /\ input.v = WithDefault(<<"1", "0">>)
  /\ expansion.first.out = <<"$", "{", "K", ":", "}", "}">>
  /\ expansion.again.out = <<"}", "}">>
  /\ expandVar(input.v, input.resolver, FALSE).out = <<"}">>


\* The files that declare v, by their place in the order in which the calls
\* of loadNode returned.
Declares(k) ==
  declared[k].variables # NilNode /\ Get(declared[k].variables, K_v) # NilNode

LastDeclaring ==
  CHOOSE k \in 1..Len(declared) : Declares(k) /\ \A m \in (k + 1)..Len(declared) : ~Declares(m)

\* A file returns after the files it includes: the root file is the last,
\* and the file child1.yml includes returns right before child1.yml.
PostOrder ==
  /\ declared[Len(declared)].file = VarRootFile
  /\ \A k \in 1..Len(declared) :
       declared[k].file = GrandChildFile
         => (k < Len(declared) /\ declared[k + 1].file = ChildFile(1))

\* What a reference to v becomes: the value of the resolver of the options,
\* else of the environment, else of the declaration that wins, else the
\* default 0.
expandedTo(n, value, tag) == n.Value = value /\ n.Tag = tag

ExpandedAgainstAll(n) ==
  IF cfg.VarResolver.set THEN expandedTo(n, <<"u">>, "!!str")
  ELSE IF K_v \in DOMAIN cfg.Env THEN expandedTo(n, <<"e">>, "!!str")
  ELSE IF \E k \in 1..Len(declared) : Declares(k)
  THEN expandedTo(n, ValueIn(declared[LastDeclaring].file), "!!str")
  ELSE expandedTo(n, <<"0">>, "!!int")

\* C20: the variables of the files of the include tree are merged in
\* post-order, so the declaration of an including file wins over those of
\* the files it includes and the one of a later include over an earlier
\* one's; the expansion comes after the whole load, so every scalar of the
\* final tree, whichever file it came from, has the value that wins.
C20_PostOrderVariables ==
  (pc = "JSONPatches" /\ cfg.name = VarRootFile /\ ~cfg.KeepsVariables)
  => /\ PostOrder
     /\ ExpandedAgainstAll(Get(nd, <<"c">>))
     /\ Len(Get(nd, <<"s">>).Content) = Len(declared)
     /\ \A k \in 1..Len(declared) :
          /\ Get(nd, <<"s">>).Content[k].File = declared[k].file
          /\ ExpandedAgainstAll(Get(nd, <<"s">>).Content[k])

\* grand-child.yml, child1.yml that includes it and child2.yml declare v,
\* vars.yml that includes both does not: every scalar has the value of
\* child2.yml, also the one that came from grand-child.yml.
C20_Witness ==
  /\ pc = "JSONPatches"
  /\ cfg.name = VarRootFile
  /\ ~cfg.KeepsVariables
  /\ ~cfg.VarResolver.set
  /\ cfg.Env = <<>>
  /\ Len(declared) = 4
  /\ declared[1].file = GrandChildFile
  /\ declared[3].file = ChildFile(2)
  /\ Declares(1) /\ Declares(2) /\ Declares(3) /\ ~Declares(4)
  /\ Get(nd, <<"s">>).Content[1].File = GrandChildFile
  /\ Get(nd, <<"s">>).Content[1].Value = <<"c", "2">>


----------------------------------------------------------------------------
(* Properties of Load: the steps after the recursive load                  *)

\* The place of the first event of a kind in the trace, 0 when there is none.
FirstEvent(ev) ==
  IF \E j \in 1..Len(trace) : trace[j].ev = ev
  THEN CHOOSE j \in 1..Len(trace) :
         trace[j].ev = ev /\ \A i \in 1..(j - 1) : trace[i].ev # ev
  ELSE 0

\* Every event of kind a comes before every event of kind b.
Before(a, b) ==
  \A i, j \in 1..Len(trace) : (trace[i].ev = a /\ trace[j].ev = b) => i < j

\* C21, as the specification states it: Load applies the patches of the
\* options, then expands the variables, then adds the source comments, then
\* attaches the source map, then decodes; so a reference in the value of a
\* patch of the options is expanded in the final document.
C21_AsClaimed ==
  /\ Before("jsonpatch", "processVars")
  /\ Before("processVars", "comments")
  /\ Before("comments", "sourcemap")
  /\ Before("sourcemap", "decode")
  /\ (/\ pc = "returned" /\ ~IsErr(ret)
      /\ cfg.JSONPatches = <<ExtRefPatch>>
      /\ ~cfg.KeepsVariables)
       => Get(dest, <<"n">>).Value # RefWithDefault

\* What holds of the program: the variables are expanded before the patches
\* of the options are applied, and the value of such a patch is decoded as
\* it was given.
C21_VarsBeforePatches ==
  /\ Before("processVars", "jsonpatch")
  /\ Before("jsonpatch", "comments")
  /\ Before("comments", "sourcemap")
  /\ Before("sourcemap", "decode")
  /\ (pc = "returned" /\ ~IsErr(ret) /\ cfg.JSONPatches = <<ExtRefPatch>>)
       => Get(dest, <<"n">>).Value = RefWithDefault

\* Load has returned a document whose n is the unexpanded ${v:0} of the
\* patch, next to scalars of the files that were expanded.
C21_Diverges ==
  /\ pc = "returned" /\ ~IsErr(ret)
  /\ cfg.JSONPatches = <<ExtRefPatch>>
  /\ ~cfg.KeepsVariables
  /\ Get(dest, <<"n">>).Value = RefWithDefault
  /\ Get(dest, <<"c">>).Value # RefWithDefault
  /\ Get(dest, <<"c">>).Value # RefBare


\* The names of the listing that have the prefix, and the place of one of
\* them among these in ascending order.
Harvested == {i \in DOMAIN cfg.Environ : HasPrefix(cfg.Environ[i].name, PatchPrefix)}

RankOf(i) ==
  1 + Cardinality({j \in Harvested : StrLess(cfg.Environ[j].name, cfg.Environ[i].name)})

\* The greatest of the harvested names that add the key n.
WritesN(i) == cfg.Environ[i].value.patch.path = PathOf(<<<<"n">>>>)

LastWriterOfN ==
  CHOOSE i \in Harvested :
    /\ WritesN(i)
    /\ \A j \in Harvested : WritesN(j) => ~StrLess(cfg.Environ[i].name, cfg.Environ[j].name)

----------------------------------------------------------------------------
(* Properties of the source map and of the source comments                 *)

\* The document a Load of a.yml returned without error.
ReturnedOfA == pc = "returned" /\ ~IsErr(ret) /\ cfg.name = FileA

\* The entries of the source map attached to a document, and the entry the
\* map has of a path (the nil node when it has none).
EntriesOf(d) == Get(Get(d, K_sourcemap), K_mappings).Content

EntryIndex(d, path) ==
  IF \E i \in 1..Len(EntriesOf(d)) : Get(EntriesOf(d)[i], K_path).Value = path
  THEN CHOOSE i \in 1..Len(EntriesOf(d)) :
         /\ Get(EntriesOf(d)[i], K_path).Value = path
         /\ \A j \in 1..(i - 1) : Get(EntriesOf(d)[j], K_path).Value # path
  ELSE 0

EntryOf(d, path) == IF EntryIndex(d, path) = 0 THEN NilNode ELSE EntriesOf(d)[EntryIndex(d, path)]

EntryIs(d, path, file, line) ==
  /\ Get(EntryOf(d, path), K_file).Value = FileText(file)
  /\ Get(EntryOf(d, path), K_line).Value = Itoa(line)

\* The key node of a key of a mapping.
KeyNode(d, key) == d.Content[ValueIndex(d, key) - 1]

\* The source comment the marshalled document shows on the line of a key:
\* that of the value when the value is a scalar with a comment, that of the
\* key otherwise.
shownComment(k, v) ==
  IF v.Kind = "ScalarNode" /\ v.LineComment # <<>> THEN v.LineComment ELSE k.LineComment

ShownFor(d, key) == shownComment(KeyNode(d, key), Get(d, key))

PathK == <<"/", "k">>

\* The value of k in the document is the node of a.yml: the value of a.yml
\* replaced the included one (it is a scalar, or of another kind than the
\* included value).
ReplacedByA == Get(dest, <<"k">>).File = FileA

ProvenanceOfA ==
  /\ cfg.SourceMapKey # <<>> => EntryIs(dest, PathK, FileA, LineOfK(FileA))
  /\ cfg.SourceMapComment =>
       ShownFor(dest, <<"k">>) = <<[File |-> FileA, Line |-> LineOfK(FileA)]>>

\* C23, as the specification states it: a.yml includes b.yml, which includes
\* c.yml, and all three define k; whenever the value of a.yml replaces the
\* included one, whatever its kind, the value of k is that of a.yml and the
\* source-map entry and the source comment of k name a.yml and the line of k
\* in a.yml.
C23_AsClaimed ==
  (ReturnedOfA /\ ReplacedByA) => ProvenanceOfA

\* What holds of the program: a scalar of a.yml has the provenance of a.yml;
\* a mapping or a sequence of a.yml that replaces the included value leaves
\* k with the position of the key of c.yml, the file merged first.
C23_KeyOfMergeBase ==
  (ReturnedOfA /\ ReplacedByA) =>
     /\ KeyNode(dest, <<"k">>).File = FileC
     /\ IF Get(dest, <<"k">>).Kind = "ScalarNode"
        THEN /\ Get(dest, <<"k">>).Value = InitialOf(FileA)
             /\ ProvenanceOfA
        ELSE /\ cfg.SourceMapKey # <<>> => EntryIs(dest, PathK, FileC, LineOfK(FileC))
             /\ cfg.SourceMapComment =>
                  ShownFor(dest, <<"k">>) = <<[File |-> FileC, Line |-> LineOfK(FileC)]>>

\* Load has returned a document whose k is the mapping of a.yml, with the
\* source-map entry and the source comment of c.yml line 30.
C23_Diverges ==
  /\ ReturnedOfA /\ ReplacedByA
  /\ Get(dest, <<"k">>).Kind = "MappingNode"
  /\ Get(Get(dest, <<"k">>), <<"m">>).Value = InitialOf(FileA)
  /\ cfg.SourceMapKey # <<>> /\ cfg.SourceMapComment
  /\ EntryIs(dest, PathK, FileC, LineOfK(FileC))
  /\ ShownFor(dest, <<"k">>) = <<[File |-> FileC, Line |-> LineOfK(FileC)]>>


\* The document without the pair of the source-map key: the tree the source
\* map was made of.
RECURSIVE pairsWithout(_, _, _)
pairsWithout(content, key, i) ==
  IF i + 1 > Len(content) THEN <<>>
  ELSE IF content[i].Value = key THEN pairsWithout(content, key, i + 2)
  ELSE <<content[i], content[i + 1]>> \o pairsWithout(content, key, i + 2)

Mapped(d) == [d EXCEPT !.Content = pairsWithout(d.Content, K_sourcemap, 1)]

\* The structural paths of a tree below the path p: those of its keys and
\* those of its elements, and those of the elements that are themselves
\* mappings or sequences.
RECURSIVE PathsBelow(_, _)
PathsBelow(n, p) ==
  IF n.Kind = "MappingNode"
  THEN UNION {{mustJSONPointerKey(p, n.Content[2 * i - 1].Value)}
                \cup PathsBelow(n.Content[2 * i],
                                mustJSONPointerKey(p, n.Content[2 * i - 1].Value)) :
              i \in 1..(Len(n.Content) \div 2)}
  ELSE IF n.Kind = "SequenceNode"
  THEN UNION {{mustJSONPointerIndex(p, i - 1)}
                \cup PathsBelow(n.Content[i], mustJSONPointerIndex(p, i - 1)) :
              i \in 1..Len(n.Content)}
  ELSE {}

RECURSIVE ContainerElementsBelow(_, _)
ContainerElementsBelow(n, p) ==
  IF n.Kind = "MappingNode"
  THEN UNION {ContainerElementsBelow(n.Content[2 * i],
                                     mustJSONPointerKey(p, n.Content[2 * i - 1].Value)) :
              i \in 1..(Len(n.Content) \div 2)}
  ELSE IF n.Kind = "SequenceNode"
  THEN UNION {(IF n.Content[i].Kind \in {"MappingNode", "SequenceNode"}
               THEN {mustJSONPointerIndex(p, i - 1)} ELSE {})
                \cup ContainerElementsBelow(n.Content[i], mustJSONPointerIndex(p, i - 1)) :
              i \in 1..Len(n.Content)}
  ELSE {}

StructuralPaths(d) == {<<"/">>} \cup PathsBelow(Mapped(d), <<"/">>)

ContainerElements(d) == ContainerElementsBelow(Mapped(d), <<"/">>)

WithSourceMapOfA == ReturnedOfA /\ cfg.SourceMapKey # <<>>

\* C24, as the specification states it: the source map attached to the
\* document has an entry for the root, for the path of every key and for
\* the path of every sequence element, those whose value is a mapping or a
\* sequence included: the lookup of a structural path is never nil.
C24_AsClaimed ==
  WithSourceMapOfA => \A p \in StructuralPaths(dest) : EntryOf(dest, p) # NilNode

\* What holds of the program: the paths without an entry are exactly those
\* of the sequence elements that are mappings or sequences.
C24_ContainerElementsUnmapped ==
  WithSourceMapOfA =>
    \A p \in StructuralPaths(dest) :
      (EntryOf(dest, p) = NilNode) <=> (p \in ContainerElements(dest))

\* Load has returned a document whose q is a sequence of one mapping: the
\* source map has entries for /q and /q/0/m and none for /q/0.
C24_Diverges ==
  /\ WithSourceMapOfA
  /\ Get(dest, <<"q">>).Kind = "SequenceNode"
  /\ Get(dest, <<"q">>).Content[1].Kind = "MappingNode"
  /\ EntryOf(dest, <<"/", "q">>) # NilNode
  /\ EntryOf(dest, <<"/", "q", "/", "0", "/", "m">>) # NilNode
  /\ EntryOf(dest, <<"/", "q", "/", "0">>) = NilNode


----------------------------------------------------------------------------
(* Properties of loadNode: the directive block and the include list        *)

\* A tree has no directive key (the nil node has none).
Stripped(n) == ValueIndex(n, DirectiveKey) = 0

\* A call of loadNode that has read its file holds no tree with the
\* directive key: not the file's own, not those its includes returned, not
\* what it has merged.
StrippedFrame(f) ==
  f.step # "open" =>
    /\ Stripped(f.root)
    /\ Stripped(f.mergedNode)
    /\ \A j \in 1..Len(f.loaded) : Stripped(f.loaded[j])

\* The files Load has entered so far, and the file whose tree is the first
\* that any loadNode received from an include.
Entered(file) == \E i \in 1..Len(trace) : trace[i].ev = "enter" /\ trace[i].file = file

\* C25: the directive block of a file is removed from the file's tree when
\* the file is read, at every depth of inclusion and for the first included
\* file too, whose tree the merge starts from: no tree a loadNode holds,
\* the tree Load works on and the document it returns have no directive key.
C25_DirectivesStripped ==
  /\ \A i \in 1..Len(stack) : StrippedFrame(stack[i])
  /\ Stripped(nd)
  /\ Stripped(dest)

\* Load has returned a document made of the root file, which has a
\* directive block with an include list, of the first included file, which
\* includes the deep file, and of the deep file, whose directive block has a
\* patch and variables and whose tree is the one the merge started from.
C25_Witness ==
  /\ pc = "returned" /\ ~IsErr(ret) /\ cfg.name = RootFile
  /\ Entered(IncFile(1)) /\ Entered(DeepFile)
  /\ \E i \in 1..Len(trace) : trace[i].ev = "patch" /\ trace[i].file = DeepFile
  /\ dest.Kind = "MappingNode" /\ dest.Content # <<>>
  /\ Stripped(dest)


\* The include patterns of a file that match no file, by their place in the
\* include list of the file's directive block.
IncludeList(d) == Get(Get(d, DirectiveKey), K_include).Content

UnmatchedIn(d) ==
  IF d.Kind = "MappingNode" /\ Get(d, DirectiveKey).Kind = "MappingNode"
  THEN {i \in 1..Len(IncludeList(d)) : fsGlob(IncludeList(d)[i].Value) = <<>>}
  ELSE {}

FirstUnmatched(d) ==
  IncludeList(d)[CHOOSE i \in UnmatchedIn(d) : \A j \in UnmatchedIn(d) : i <= j].Value

\* An error of the I/O category that names an including file and a pattern.
NamesInclude(e, path, pattern) ==
  /\ IsErr(e)
  /\ ErrorsIs(e, "ErrIO") /\ e.cat = "io error"
  /\ e.inner = "failed to find a included file"
  /\ e.where.File = path
  /\ e.tok = <<pattern>>

LastEvent == trace[Len(trace)]

\* C26: when an include pattern of a file, at any depth, matches no file,
\* reading the file gives an error of the I/O category that names the file
\* and the pattern; the error of a loadNode is what Load returns, whatever
\* was composed before, and a Load that returns an error has decoded
\* nothing.
C26_UnmatchedIncludeFails ==
  /\ \A d \in Readable :
       UnmatchedIn(d) # {} =>
         NamesInclude(openFile(Top, d).err, Top.path, FirstUnmatched(d))
  /\ (trace # <<>> /\ LastEvent.ev = "enter" /\ IsErr(LastEvent.err)) =>
       /\ pc = "returned" /\ ret = LastEvent.err /\ stack = <<>>
  /\ (pc = "returned" /\ IsErr(ret)) =>
       /\ dest = NilNode
       /\ \A i \in 1..Len(trace) : trace[i].ev # "decode"

\* Load has returned the error of the second included file, whose pattern
\* matches nothing, after the first included file was loaded and merged
\* into the root's loadNode; nothing was decoded.
C26_Witness ==
  /\ pc = "returned"
  /\ NamesInclude(ret, IncFile(2), MissingFile)
  /\ \E i \in 1..Len(trace) :
       trace[i].ev = "return" /\ trace[i].file = IncFile(1) /\ trace[i].to = RootFile
  /\ dest = NilNode


----------------------------------------------------------------------------
(* Properties of the expansion of one scalar: empty values and names       *)

\* The chain of resolvers finds K, and what it finds is the empty string.
FoundEmpty == ChainGives(input.resolver, K_K) = Resolved(<<>>, NoErr)

\* The scalars that are one reference to K, bare or with a default that is
\* not empty, and such a reference between two texts.
RefsOfK == {BareK} \cup OneRefWithDefault

Around(ref) == {<<"d", " ">> \o ref, ref \o <<" ", "f">>, <<"d", " ">> \o ref \o <<" ", "f">>}

RefOfKInText == UNION {Around(ref) : ref \in RefsOfK}

\* The text around the reference of a scalar of RefOfKInText.
TextAround(v) ==
  (IF v[1] = "d" THEN <<"d", " ">> ELSE <<>>)
  \o (IF v[Len(v)] = "f" THEN <<" ", "f">> ELSE <<>>)

\* C27: a reference the resolvers resolve to the empty string is found:
\* expandVar and processVars return no error and the default is not used;
\* a scalar that is the reference and nothing else becomes the text "",
\* which processVars makes the empty scalar of tag !!str, and a reference
\* inside a text is replaced by nothing.
C27_EmptyIsFound ==
  (FoundEmpty /\ ~input.keepsVariables) =>
     /\ (expansion.stage = "expanded" /\ input.v \in RefsOfK) =>
           /\ ~IsErr(expansion.first.err)
           /\ expansion.first.out = <<"\"", "\"">>
     /\ (expansion.stage = "processed" /\ input.v \in RefsOfK) =>
           /\ ~IsErr(expansion.err)
           /\ expansion.node.Kind = "ScalarNode"
           /\ expansion.node.Value = <<>>
           /\ expansion.node.Tag = "!!str"
     /\ (expansion.stage = "expanded" /\ input.v \in RefOfKInText) =>
           /\ ~IsErr(expansion.first.err)
           /\ expansion.first.out = TextAround(input.v)

\* processVars has made the empty string of ${K:10}, K being set and empty
\* in the environment.
C27_Witness ==
  /\ FoundEmpty /\ ~input.keepsVariables
  /\ input.v = WithDefault(<<"1", "0">>)
  /\ input.resolver.env = (K_K :> <<>>)
  /\ expansion.stage = "processed"
  /\ expansion.node.Value = <<>> /\ expansion.node.Tag = "!!str"


\* K is set in the environment and declared, a scalar, in the directive
\* variables, and the options bring no resolver.
DefinedInBoth ==
  /\ ~input.resolver.custom.set
  /\ K_K \in DOMAIN input.resolver.env
  /\ input.resolver.variables # NilNode
  /\ Get(input.resolver.variables, K_K).Kind = "ScalarNode"

\* C28, as the README states it: a variable is resolved first by the
\* directive variables and then by the environment, so that the scalar ${K},
\* K being defined in both, becomes the value the directive declares.
C28_AsClaimed ==
  (/\ expansion.stage = "processed" /\ ~input.keepsVariables
   /\ input.v = BareK /\ DefinedInBoth)
  => /\ ~IsErr(expansion.err)
     /\ expansion.node.Value = Get(input.resolver.variables, K_K).Value

\* What holds of the program: the value of the environment is substituted.
C28_EnvironmentFirst ==
  (/\ expansion.stage = "processed" /\ ~input.keepsVariables
   /\ input.v = BareK /\ DefinedInBoth)
  => /\ ~IsErr(expansion.err)
     /\ expansion.node.Value = input.resolver.env[K_K]

\* processVars has made the string 99, the value of the environment, of
\* ${K}, K being 10 in the directive variables.
C28_Diverges ==
  /\ expansion.stage = "processed" /\ ~input.keepsVariables
  /\ input.v = BareK /\ DefinedInBoth
  /\ Get(input.resolver.variables, K_K).Value = <<"1", "0">>
  /\ expansion.node.Value = <<"9", "9">>
  /\ expansion.node.Tag = "!!str"


----------------------------------------------------------------------------
(* Properties of Load: the keys of the directive block                     *)

ReturnedOfBasics == pc = "returned" /\ cfg.name = BasicsFile

\* C29, as the specification states it: the variables a directive block
\* declares under vars are collected like those under variables, so that a
\* reference to v, which basics.yml declares under vars, becomes the
\* declared value.
C29_AsClaimed ==
  ReturnedOfBasics =>
    /\ ~IsErr(ret)
    /\ Get(allVariables, K_v).Value = <<"r">>
    /\ Get(dest, <<"c">>).Value = <<"r">>

\* What holds of the program: the key vars is not read, nothing is
\* collected; the reference without default makes Load fail with variable
\* not found and the reference with the default 0 becomes 0.
C29_VarsNotRead ==
  ReturnedOfBasics =>
    /\ Get(allVariables, K_v) = NilNode
    /\ \/ /\ ErrorsIs(ret, "ErrVarNotFound") /\ ret.tok = K_v /\ dest = NilNode
       \/ /\ ~IsErr(ret)
          /\ Get(dest, <<"c">>).Value = <<"0">> /\ Get(dest, <<"c">>).Tag = "!!int"

\* Load of basics.yml, whose c is ${v}, has failed: v is not found.
C29_Diverges ==
  /\ ReturnedOfBasics
  /\ ErrorsIs(ret, "ErrVarNotFound") /\ ret.tok = K_v
  /\ Get(allVariables, K_v) = NilNode
  /\ dest = NilNode


\* The name a scalar of OddlyNamed has between ${ and the colon or brace.
RECURSIVE runOfName(_, _)
runOfName(v, j) ==
  IF j > Len(v) \/ v[j] \in {":", "}"} THEN <<>> ELSE <<v[j]>> \o runOfName(v, j + 1)

\* C30, as the specification states it: a name starts with a letter; when
\* a digit, an underscore or a hyphen follows ${ the name is empty, the text
\* is left as it is and the resolver is not called with such a name.
C30_AsClaimed ==
  expansion.stage = "expanded" =>
    /\ \A k \in 1..Len(expansion.first.calls) : IsLetter(expansion.first.calls[k][1])
    /\ input.v \in OddlyNamed =>
         (~IsErr(expansion.first.err) /\ expansion.first.out = input.v)

\* What holds of the program: isVarName is given the index of the character
\* in the scalar, which is not 0 after ${, so that the name is the run of
\* letters, digits, underscores and hyphens after ${ and the resolver is
\* called with it.
C30_NameFromAnyStart ==
  (expansion.stage = "expanded" /\ input.v \in OddlyNamed) =>
    expansion.first.calls = <<runOfName(input.v, 3)>>

\* expandVar has made 1 of ${_K:1}: it asked the resolver for _K and took
\* the default.
C30_Diverges ==
  /\ expansion.stage = "expanded" /\ ~input.keepsVariables
  /\ input.v = <<"$", "{", "_", "K", ":", "1", "}">>
  /\ expansion.first.calls = <<<<"_", "K">>>>
  /\ ~IsErr(expansion.first.err)
  /\ expansion.first.out = <<"1">>


\* The scalar ${K x}: a name, text that is neither a colon nor a brace, and
\* the closing brace.
NameThenText == <<"$", "{", "K", " ", "x", "}">>

\* C31, as the specification states it: a reference is recognised only
\* when a colon or a closing brace follows the name at once; ${K x} is no
\* reference, it is left as it is and the resolver is not called for K.
C31_AsClaimed ==
  (expansion.stage = "expanded" /\ input.v = NameThenText) =>
    /\ ~IsErr(expansion.first.err)
    /\ expansion.first.out = input.v
    /\ expansion.first.calls = <<>>

\* What holds of the program: after the name the scan passes over every
\* character up to the next colon or closing brace, so that ${K x} is a
\* bare reference to K.
C31_TextAfterNameSkipped ==
  (expansion.stage = "expanded" /\ input.v = NameThenText) =>
    /\ expansion.first.calls = <<K_K>>
    /\ IF IsErr(ChainGives(input.resolver, K_K).err)
       THEN (input.keepsVariables \/ expansion.first.err = ChainGives(input.resolver, K_K).err)
       ELSE ~IsErr(expansion.first.err) /\ expansion.first.out # input.v

\* expandVar has made aaa, the value of K in the environment, of ${K x}.
C31_Diverges ==
  /\ expansion.stage = "expanded" /\ ~input.keepsVariables
  /\ input.v = NameThenText
  /\ expansion.first.calls = <<K_K>>
  /\ ~IsErr(expansion.first.err)
  /\ expansion.first.out = <<"a", "a", "a">>


----------------------------------------------------------------------------
(* Properties of the tree operations: mappings                             *)

\* The keys of a mapping, in order.
KeysOf(n) == [i \in 1..(Len(n.Content) \div 2) |-> n.Content[2 * i - 1].Value]

Ascending(keys) == \A i \in 1..(Len(keys) - 1) : ~StrLess(keys[i + 1], keys[i])

\* A sequence without the two elements from index p on.
WithoutPair(content, p) == SubSeq(content, 1, p - 1) \o SubSeq(content, p + 2, Len(content))

\* The new pair is at index p of the mapping after the put, the other pairs
\* are those of before in their order, no key before p is greater than the
\* new key and the key after the pair, if any, is.
InsertedAt(pre, post, key, value, p) ==
  /\ post.Content[p] = key /\ post.Content[p + 1] = value
  /\ WithoutPair(post.Content, p) = pre.Content
  /\ \A i \in 1..((p - 1) \div 2) : ~StrLess(key.Value, post.Content[2 * i - 1].Value)
  /\ p + 2 <= Len(post.Content) => StrLess(key.Value, post.Content[p + 2].Value)

putOfNewKey(pre, post, arg) ==
  /\ arg.returned = NilNode
  /\ Len(post.Content) = Len(pre.Content) + 2
  /\ \E i \in 1..(Len(post.Content) \div 2) :
       InsertedAt(pre, post, arg.key, arg.value, 2 * i - 1)
  /\ Ascending(KeysOf(pre)) => Ascending(KeysOf(post))

\* The value of the key is replaced where it is: the pairs are otherwise
\* the same, and the put returns the value the key had.
putOfExistingKey(pre, post, arg) ==
  \E i \in 1..(Len(pre.Content) \div 2) :
    /\ pre.Content[2 * i - 1].Value = arg.key.Value
    /\ \A j \in 1..(i - 1) : pre.Content[2 * j - 1].Value # arg.key.Value
    /\ arg.returned = pre.Content[2 * i]
    /\ post.Content = [pre.Content EXCEPT ![2 * i] = arg.value]
    /\ KeysOf(post) = KeysOf(pre)

HasKeyOf(n, key) == \E i \in 1..Len(KeysOf(n)) : KeysOf(n)[i] = key.Value

\* C32: a put of a new scalar key inserts the pair before the first key
\* that is lexically greater, at the end when there is none, and keeps the
\* order of the other pairs, so that ascending keys stay ascending; a put
\* of a key the mapping has replaces the value in place, returns the old
\* value and changes neither the number nor the order of the keys.
C32_PutKeepsOrder ==
  last.op = "put" =>
    IF HasKeyOf(last.pre, last.arg.key)
    THEN putOfExistingKey(last.pre, doc, last.arg)
    ELSE putOfNewKey(last.pre, doc, last.arg)

\* The key b was put into the document whose keys are s, a, c: it is
\* before s, the first key greater than b, and the put returned nil.
C32_Witness ==
  /\ last.op = "put"
  /\ last.arg.key.Value = <<"b">>
  /\ last.arg.returned = NilNode
  /\ KeysOf(last.pre) = <<<<"s">>, <<"a">>, <<"c">>>>
  /\ KeysOf(doc) = <<<<"b">>, <<"s">>, <<"a">>, <<"c">>>>


\* Every mapping of a tree has an even number of children, and the keys of
\* a mapping are scalars that differ from each other.
RECURSIVE WellFormed(_)
wellFormedMapping(n) ==
  /\ Len(n.Content) % 2 = 0
  /\ \A i \in 1..(Len(n.Content) \div 2) : n.Content[2 * i - 1].Kind = "ScalarNode"
  /\ \A i, j \in 1..(Len(n.Content) \div 2) :
       i # j => n.Content[2 * i - 1].Value # n.Content[2 * j - 1].Value

WellFormed(n) ==
  /\ n.Kind = "MappingNode" => wellFormedMapping(n)
  /\ \A i \in 1..Len(n.Content) : WellFormed(n.Content[i])

\* C33: after any sequence of puts, deletes, merges and patches on a
\* document whose mappings have distinct keys, every mapping has an even
\* number of children and distinct keys.
C33_MappingsWellFormed == WellFormed(doc)

\* Two operations were applied, the second a merge with an overlay that
\* has the keys a, b and c, after a put of the key b: the document has one b.
C33_Witness ==
  /\ nops = 2 /\ last.op = "merge"
  /\ HasKeyOf(last.pre, Scalar(<<"b">>, "put.yml", 1))
  /\ Get(last.pre, <<"b">>).File = "put.yml"
  /\ Get(last.arg, <<"a">>).Kind = "MappingNode"
  /\ Get(Get(doc, <<"a">>), <<"a", "a">>) # NilNode
  /\ Cardinality({i \in 1..Len(KeysOf(doc)) : KeysOf(doc)[i] = <<"b">>}) = 1
  /\ WellFormed(doc)


----------------------------------------------------------------------------
(* Calls on a source map (specification SpecMap)                           *)

\* The number of calls made on the source map.
MaxCalls == 3

MapSources == {"a.yml", "b.yml", "${PATCH_0}"}

MapPaths == {<<"/">>, <<"/", "k">>, <<"/", "k", "/", "0">>}

MapFiles == {"a.yml", "b.yml"}

MapLines == {1, 2}

InitMap ==
  /\ TreeIdle
  /\ LoadIdle
  /\ VarIdle
  /\ ErrIdle
  /\ sourceMap = newSourceMap
  /\ called = NoCall
  /\ added = <<>>

\* s.AddSource(source)
CallAddSource(source) ==
  /\ called.n < MaxCalls
  /\ sourceMap' = AddSource(sourceMap, source)
  /\ called' = [op |-> "AddSource", arg |-> Mapping(<<>>, source, 0), pre |-> sourceMap,
                found |-> NilMapping, n |-> called.n + 1]
  /\ added' = Append(added, source)
  /\ UNCHANGED <<treeVars, loadVars, varVars, errVars>>

\* s.AddMapping(path, file, line)
CallAddMapping(path, file, line) ==
  /\ called.n < MaxCalls
  /\ sourceMap' = AddMapping(sourceMap, path, file, line)
  /\ called' = [op |-> "AddMapping", arg |-> Mapping(path, file, line), pre |-> sourceMap,
                found |-> NilMapping, n |-> called.n + 1]
  /\ UNCHANGED <<added, treeVars, loadVars, varVars, errVars>>

\* s.FindMap(path)
CallFindMap(path) ==
  /\ called.n < MaxCalls
  /\ called' = [op |-> "FindMap", arg |-> Mapping(path, "", 0), pre |-> sourceMap,
                found |-> FindMap(sourceMap, path), n |-> called.n + 1]
  /\ UNCHANGED <<sourceMap, added, treeVars, loadVars, varVars, errVars>>

NextMap ==
  \/ \E source \in MapSources : CallAddSource(source)
  \/ \E path \in MapPaths, file \in MapFiles, line \in MapLines :
       CallAddMapping(path, file, line)
  \/ \E path \in MapPaths : CallFindMap(path)

SpecMap == InitMap /\ [][NextMap]_vars

----------------------------------------------------------------------------
(* Properties of the source map                                            *)

\* The elements of a sequence without those that occurred before.
RECURSIVE FirstOccurrences(_)
FirstOccurrences(seq) ==
  IF seq = <<>> THEN <<>>
  ELSE IF \E i \in 1..(Len(seq) - 1) : seq[i] = seq[Len(seq)]
  THEN FirstOccurrences(SubSeq(seq, 1, Len(seq) - 1))
  ELSE Append(FirstOccurrences(SubSeq(seq, 1, Len(seq) - 1)), seq[Len(seq)])

OnePerPath(mappings) ==
  \A i, j \in 1..Len(mappings) : i # j => mappings[i].Path # mappings[j].Path

\* What AddMapping is to make of the mappings: the entry of the path
\* overwritten where it is, or the mapping appended.
mappingAdded(pre, post, m) ==
  IF \E i \in 1..Len(pre) : pre[i].Path = m.Path
  THEN /\ Len(post) = Len(pre)
       /\ \A i \in 1..Len(pre) : post[i] = (IF pre[i].Path = m.Path THEN m ELSE pre[i])
  ELSE post = Append(pre, m)

\* What FindMap is to return: the entry of the path, nil when there is none.
foundIs(mappings, path, found) ==
  IF \E i \in 1..Len(mappings) : mappings[i].Path = path
  THEN \E i \in 1..Len(mappings) : mappings[i].Path = path /\ found = mappings[i]
  ELSE found = NilMapping

\* C34: after any calls of AddSource and AddMapping the sources are those
\* AddSource was called with, each once, in the order of their first
\* occurrence, and the mappings have one entry for a path; AddMapping of a
\* path that has an entry overwrites its file and line where it is and
\* leaves the length, and FindMap returns the entry of a path or nil.
C34_SourceMapIsASet ==
  /\ sourceMap.Sources = FirstOccurrences(added)
  /\ OnePerPath(sourceMap.Mappings)
  /\ called.op = "AddMapping" =>
       /\ mappingAdded(called.pre.Mappings, sourceMap.Mappings, called.arg)
       /\ sourceMap.Sources = called.pre.Sources
  /\ called.op = "AddSource" => sourceMap.Mappings = called.pre.Mappings
  /\ called.op = "FindMap" =>
       /\ foundIs(sourceMap.Mappings, called.arg.Path, called.found)
       /\ sourceMap = called.pre

\* The third call was AddMapping of /k, which had the entry a.yml:1 in
\* first place before another path: the entry is b.yml:2, still first of
\* two.
C34_Witness ==
  /\ called.op = "AddMapping" /\ called.n = 3
  /\ Len(called.pre.Mappings) = 2
  /\ called.pre.Mappings[1] = Mapping(<<"/", "k">>, "a.yml", 1)
  /\ called.arg = Mapping(<<"/", "k">>, "b.yml", 2)
  /\ sourceMap.Mappings[1] = called.arg
  /\ Len(sourceMap.Mappings) = 2

\* ---------------------------------------------------------------------
\* Making errors (specification SpecErr): New is called on a category
\* with the error made so far as the cause, starting from no cause or
\* from an error of another package.
\* ---------------------------------------------------------------------

MaxWrap == 3

Categories ==
  {ErrCategory, ErrIOCategory, ErrYAMLCategory, ErrDirectiveCategory,
   ErrVarNotFoundCategory}

\* The error the YAML parser returns for the value "[" of a variable.
YAMLParserError == Foreign("yaml: line 1: did not find expected node content")

\* The error os.Open returns for a file that does not exist.
FileSystemError == Foreign("open gone.yml: no such file or directory")

\* The messages Load gives to New, by category.
MessageFor(e) ==
  IF e = ErrVarNotFoundCategory THEN "K not found"
  ELSE IF e = ErrDirectiveCategory THEN "test.yml(line:3): invalid patch"
  ELSE IF e = ErrYAMLCategory THEN "test.yml(line:3): failed to parse a variable"
  ELSE IF e = ErrIOCategory THEN "test.yml: failed to load given file"
  ELSE "failed"

InitErr ==
  /\ TreeIdle
  /\ LoadIdle
  /\ VarIdle
  /\ MapIdle
  /\ \/ wrapped = NilError /\ made = <<>>
     \/ wrapped = YAMLParserError /\ made = <<YAMLParserError>>
     \/ wrapped = FileSystemError /\ made = <<FileSystemError>>

CallNew(e) ==
  /\ Len(made) < MaxWrap
  /\ wrapped' = New(e, MessageFor(e), wrapped)
  /\ made' = Append(made, e)
  /\ UNCHANGED <<treeVars, loadVars, varVars, mapVars>>

NextErr == \E e \in Categories : CallNew(e)

SpecErr == InitErr /\ [][NextErr]_vars

\* A category and its ancestors up to the root; an error of another
\* package has no category.
RECURSIVE UpToRoot(_)
UpToRoot(e) ==
  IF e.kind = "nil" THEN {}
  ELSE IF e.kind = "foreign" THEN {e}
  ELSE {e} \cup UpToRoot(e.parent)

\* What errors.Is may be asked about: the categories and the errors of
\* other packages.
Targets == Categories \cup {YAMLParserError, FileSystemError}

\* The categories of the errors of the cause chain with their ancestors,
\* and the error of another package at its end.
MemberOf == UNION {UpToRoot(made[i]) : i \in 1..Len(made)}

\* C35: an error made with New on a category is a member (errors.Is) of
\* that category, of every ancestor of it up to the root and of every
\* category an error of its cause chain is a member of, at any depth of
\* wrapping, and of no other category; so the error of an unresolved
\* variable, made on the variable-not-found category with no cause, is a
\* member of it and of the root and not of the directive category, and the
\* error of a failed patch, made on the directive category with no cause,
\* is a member of the directive category.
C35_MemberOfCategories ==
  wrapped.kind = "wrapped" =>
    /\ \A t \in Targets : errorsIs(wrapped, t) <=> t \in MemberOf
    /\ errorsIs(wrapped, wrapped.parent)
    /\ \A t \in UpToRoot(wrapped.parent) : errorsIs(wrapped, t)
    /\ made = <<ErrVarNotFoundCategory>> =>
         /\ errorsIs(wrapped, ErrVarNotFoundCategory)
         /\ ~errorsIs(wrapped, ErrDirectiveCategory)
    /\ made = <<ErrDirectiveCategory>> =>
         /\ errorsIs(wrapped, ErrDirectiveCategory)
         /\ ~errorsIs(wrapped, ErrVarNotFoundCategory)

\* The parser's error was wrapped in the YAML category and that error in
\* the IO category: the error is a member of both, of the root and of the
\* parser's error, and not of the sibling categories.
C35_Witness ==
  /\ made = <<YAMLParserError, ErrYAMLCategory, ErrIOCategory>>
  /\ errorsIs(wrapped, ErrIOCategory)
  /\ errorsIs(wrapped, ErrYAMLCategory)
  /\ errorsIs(wrapped, ErrCategory)
  /\ errorsIs(wrapped, YAMLParserError)
  /\ ~errorsIs(wrapped, ErrDirectiveCategory)
  /\ ~errorsIs(wrapped, ErrVarNotFoundCategory)

\* ---------------------------------------------------------------------
\* C36: the end of the recursive load
\* ---------------------------------------------------------------------

\* The files reachable from the file Load was called with form an include
\* cycle.
InCycle == cfg.name \in {SelfFile, PingFile, PongFile}

\* Load has returned, with the tree decoded or with an error.
Returned == pc = "returned"

\* The program has panicked inside loadNode, at a patch of a file.
PanickedInLoadNode ==
  /\ pc = "panicked"
  /\ trace # <<>>
  /\ trace[Len(trace)].ev = "patch"

\* C36 as claimed: without an include cycle the recursive load ends and
\* Load returns a tree or the first error; on an include cycle Load never
\* returns, with or without an error, and loadNode calls itself without
\* bound (every depth that is followed is reached).
C36_AsClaimed ==
  /\ [](~InCycle => <>Returned)
  /\ [](InCycle => ~Returned)
  /\ [](InCycle => <>(Len(stack) = MaxDepth))

\* What holds: without an include cycle the load ends, by a return or by a
\* panic; on an include cycle loadNode stays in its calls of itself and
\* reaches every depth that is followed.
C36_EndsOrRecurses ==
  /\ [](~InCycle => <>(Returned \/ pc = "panicked"))
  /\ [](InCycle => pc = "loadNode" /\ stack # <<>>)
  /\ [](InCycle => <>(Len(stack) = MaxDepth /\ Top.step = "include"))

\* A load without an include cycle has panicked at a patch of the file
\* instead of returning.
C36_Diverges == ~InCycle /\ PanickedInLoadNode

\* A load on an include cycle is MaxDepth calls deep, each frame of the
\* same cycle.
C36_DeepInCycle ==
  /\ InCycle
  /\ Len(stack) = MaxDepth
  /\ \A i \in 1..MaxDepth : stack[i].path \in {SelfFile, PingFile, PongFile}

\* ---------------------------------------------------------------------
\* C37: what variable expansion leaves alone
\* ---------------------------------------------------------------------

\* The references expandVar recognises in a text.
Recognised(v) == scanVars(v, 0, 0, 0 - 1, <<>>, <<>>)

\* Everything of a node but its children.
Attributes(n) == [n EXCEPT !.Content = <<>>]

\* post is pre after an expansion that changed nothing but the value and
\* the tag of string scalars that are values or elements and in which a
\* reference is recognised.
RECURSIVE Framed(_, _)
framedChildren(pre, post, first, step) ==
  /\ Attributes(post) = Attributes(pre)
  /\ Len(post.Content) = Len(pre.Content)
  /\ \A i \in 1..Len(pre.Content) :
       IF i >= first /\ (i - first) % step = 0
       THEN Framed(pre.Content[i], post.Content[i])
       ELSE post.Content[i] = pre.Content[i]

Framed(pre, post) ==
  IF pre.Kind = "MappingNode" THEN framedChildren(pre, post, 2, 2)
  ELSE IF pre.Kind = "SequenceNode" THEN framedChildren(pre, post, 1, 1)
  ELSE IF pre.Kind = "ScalarNode" /\ pre.Tag = "!!str" /\ Recognised(pre.Value) # <<>>
  THEN post = [pre EXCEPT !.Value = post.Value, !.Tag = post.Tag]
  ELSE post = pre

\* C37: variable expansion changes only string scalars that are values of
\* mappings or elements of sequences: a key that holds ${...} is neither
\* expanded nor renamed, a scalar with another tag and an alias are left as
\* they are, every mapping and sequence has the same number of children in
\* the same order, and a string scalar in which no reference is recognised
\* keeps its value and its tag.
C37_OnlyStringValuesChange ==
  expansion.stage = "tree" => Framed(TreeAround(input.v), expansion.node)

\* The tree around ${K} was expanded with K = aaa: the values and the
\* element became aaa, the keys, the scalar tagged !t and the alias did
\* not change.
C37_Witness ==
  /\ expansion.stage = "tree"
  /\ ~IsErr(expansion.err)
  /\ input.v = <<"$", "{", "K", "}">>
  /\ expansion.node.Content[1].Value = <<"$", "{", "K", "}">>
  /\ expansion.node.Content[2].Value = <<"a", "a", "a">>
  /\ expansion.node.Content[4].Value = <<"$", "{", "K", "}">>
  /\ expansion.node.Content[6].Kind = "AliasNode"
  /\ expansion.node.Content[10].Content[1].Value = <<"a", "a", "a">>
  /\ expansion.node.Content[10].Content[3].Content[1].Value = <<"$", "{", "K", "}">>
  /\ expansion.node.Content[10].Content[3].Content[2].Value = <<"a", "a", "a">>

\* ---------------------------------------------------------------------
\* C38: the spans of the references and the text between them
\* ---------------------------------------------------------------------

\* The reference vv spans text of v that starts with ${ and ends with }.
SpansReference(v, vv) ==
  /\ 0 <= vv.start
  /\ vv.start + 2 < vv.end
  /\ vv.end <= Len(v)
  /\ v[vv.start + 1] = "$"
  /\ v[vv.start + 2] = "{"
  /\ v[vv.end] = "}"

\* The references are listed from left to right and no two overlap.
LeftToRight(refs) ==
  \A k \in 1..(Len(refs) - 1) : refs[k].end <= refs[k + 1].start

\* out from its index o on is v from its index offset on with the spans of
\* the references from the k-th on replaced by some text each: the text
\* before a span, between two spans and after the last span is in out as
\* it is in v, in order.
RECURSIVE Spliced(_, _, _, _, _, _)
splicedAfter(out, o, v, offset, refs, k) ==
  /\ o <= Len(out)
  /\ SubSeq(out, o - (refs[k].start - offset) + 1, o) = SubSeq(v, offset + 1, refs[k].start)
  /\ \E q \in o..Len(out) : Spliced(out, q, v, refs[k].end, refs, k + 1)

Spliced(out, o, v, offset, refs, k) ==
  IF k > Len(refs) THEN SubSeq(out, o + 1, Len(out)) = SubSeq(v, offset + 1, Len(v))
  ELSE splicedAfter(out, o + (refs[k].start - offset), v, offset, refs, k)

\* The names of the references, in order.
NamesOf(refs) == [k \in 1..Len(refs) |-> refs[k].name]

IsPrefix(s, t) == Len(s) <= Len(t) /\ s = SubSeq(t, 1, Len(s))

spansAsClaimed(v, refs) ==
  /\ \A k \in 1..Len(refs) : SpansReference(v, refs[k])
  /\ LeftToRight(refs)

resultAsClaimed(v, refs, e) ==
  /\ refs = <<>> => e.out = v /\ e.calls = <<>> /\ ~IsErr(e.err)
  /\ ~IsErr(e.err) => Spliced(e.out, 0, v, 0, refs, 1) /\ e.calls = NamesOf(refs)
  /\ IsErr(e.err) => IsPrefix(e.calls, NamesOf(refs))

\* C38: the references expandVar recognises in a text do not overlap, are
\* listed from left to right, and each spans text that starts with ${ and
\* ends with }; what expandVar returns is the text with exactly those spans
\* replaced, the resolver asked once for the name of each in order, and
\* every byte outside the spans copied as it is and in order; when no
\* reference is recognised expandVar returns the text and the resolver is
\* not called.
C38_SpansReplacedRestCopied ==
  expansion.stage = "expanded" =>
    /\ spansAsClaimed(input.v, Recognised(input.v))
    /\ resultAsClaimed(input.v, Recognised(input.v), expansion.first)

\* Two references with text before, between and after them were replaced.
C38_Witness ==
  /\ expansion.stage = "expanded"
  /\ input.v = <<"d", " ", "$", "{", "K", "}", " ", "b", " ", "$", "{", "B", "}", " ", "f">>
  /\ ~input.keepsVariables
  /\ Len(Recognised(input.v)) = 2
  /\ expansion.first.out =
       <<"d", " ", "a", "a", "a", " ", "b", " ", "c", "c", "c", " ", "f">>
  /\ expansion.first.calls = <<K_K, K_B>>

====
